---- MODULE Spec2Model ----
(***************************************************************************)
(* Model of the geometry and interaction core of slint-node-editor:        *)
(* bezier math (src/src/path.rs), hit-test primitives (src/src/hit_test.rs)*)
(* the geometry cache (src/src/state.rs), the selection manager            *)
(* (src/src/selection.rs) and the controller (src/src/controller.rs).      *)
(*                                                                         *)
(* Numbers.  The code computes in f32.  The model computes exactly, over   *)
(* the integers: every length is a whole number of pixels, a zoom is a     *)
(* whole number, and where the code halves or divides the model keeps a    *)
(* scaled value (stated at the definition) rather than rounding.  f32      *)
(* rounding, NaN and infinities are outside the model.                     *)
(***************************************************************************)
EXTENDS Integers, Sequences, FiniteSets, TLC

VARIABLES
    node_rects,       \* GeometryCache.node_rects: node id -> [x, y, width, height]
    pin_positions,    \* GeometryCache.pin_positions: pin id -> StoredPin
    zoom,             \* ViewportState.zoom
    pan_x,            \* ViewportState.pan_x
    pan_y,            \* ViewportState.pan_y
    bezier_offset,    \* ViewportState.bezier_offset
    dragged_node_id,  \* ViewportState.dragged_node_id
    links,            \* ViewportState.links: link id -> <<start_pin, end_pin>>
    selected,         \* SelectionManager.selected
    model,            \* the rows of the Slint VecModel handed to the calls that take one
    borrows,          \* the borrow flags of the controller's two RefCells, and what the caller holds
    reported_nodes,   \* history (SpecCache): node id -> its latest and previous report
    reported_pins,    \* history (SpecCache): pin id -> its latest and previous report
    op,               \* the operation performed last, with its arguments
    ret               \* what the operation performed last returned

vars == <<node_rects, pin_positions, zoom, pan_x, pan_y, bezier_offset,
          dragged_node_id, links, selected, model, borrows, reported_nodes, reported_pins, op, ret>>

\* RefCell's borrow flag: 0 when the cell is not borrowed, the number of
\* shared borrows when above 0, -1 when mutably borrowed.  held is the
\* borrow of the cache the caller holds through cache(), if any.
Unborrowed == [state |-> 0, cache |-> 0, held |-> "none"]

ctrl_vars == <<node_rects, pin_positions, zoom, pan_x, pan_y, bezier_offset,
               dragged_node_id, links>>

-----------------------------------------------------------------------------
(* Exact arithmetic helpers                                                *)

Abs(a) == IF a < 0 THEN -a ELSE a

Max(a, b) == IF a >= b THEN a ELSE b

\* a * b = q * m + r with 0 <= r < m, computed by halving b so that no
\* intermediate value leaves the range of TLC's integers (a, b >= 0, m > 0).
RECURSIVE MulDivMod(_, _, _)
MulDivMod(a, b, m) ==
    IF b = 0 THEN <<0, 0>>
    ELSE LET h   == MulDivMod(a, b \div 2, m)
             odd == (b % 2) = 1
             t   == 2 * h[2] + (IF odd THEN a % m ELSE 0)
         IN  <<2 * h[1] + (t \div m) + (IF odd THEN a \div m ELSE 0), t % m>>

\* a/b < c/d for a, c >= 0 and b, d > 0, by the continued-fraction expansion
\* (no products, so no overflow).
RECURSIVE FracLt(_, _, _, _)
FracLt(a, b, c, d) ==
    LET qa == a \div b
        qc == c \div d
        ra == a % b
        rc == c % d
    IN  IF qa # qc THEN qa < qc
        ELSE IF rc = 0 THEN FALSE
        ELSE IF ra = 0 THEN TRUE
        ELSE FracLt(d, rc, b, ra)

\* An exact non-negative rational q + r/d with 0 <= r < d.
Whole(q) == [q |-> q, r |-> 0, d |-> 1]

MixedLt(m1, m2) ==
    \/ m1.q < m2.q
    \/ m1.q = m2.q /\ FracLt(m1.r, m1.d, m2.r, m2.d)

-----------------------------------------------------------------------------
(* src/src/path.rs                                                         *)

\* The threshold constant of the straight-line fallback: 10.0 * zoom.
StraightLineThreshold == 10

\* distance_to_bezier's sample count when it is given 0.
DefaultSamples == 20

\* The control points shared by generate_bezier_path and
\* CubicBezier::from_endpoints.  Coordinates of the result are in HALF pixels
\* (twice the pixel value), because offset = max(|dx| * 0.5, min_offset * zoom)
\* may be half a pixel.  straight is the dist_sq < threshold^2 branch.
ControlPoints(start_x, start_y, end_x, end_y, z, min_offset) ==
    LET dx        == end_x - start_x
        dy        == end_y - start_y
        dist_sq   == dx * dx + dy * dy
        threshold == StraightLineThreshold * z
        offset2   == Max(Abs(dx), 2 * min_offset * z)    \* 2 * offset
    IN  [straight |-> dist_sq < threshold * threshold,
         p0 |-> <<2 * start_x, 2 * start_y>>,
         p1 |-> <<2 * start_x + offset2, 2 * start_y>>,
         p2 |-> <<2 * end_x - offset2, 2 * end_y>>,
         p3 |-> <<2 * end_x, 2 * end_y>>]

\* generate_bezier_path: the path string as the tuple of its command letters
\* and numbers, "M sx sy L ex ey" or "M sx sy C c1x c1y c2x c2y ex ey", the
\* numbers in half pixels.
generate_bezier_path(start_x, start_y, end_x, end_y, z, min_offset) ==
    LET c == ControlPoints(start_x, start_y, end_x, end_y, z, min_offset)
    IN  IF c.straight
        THEN <<"M", c.p0[1], c.p0[2], "L", c.p3[1], c.p3[2]>>
        ELSE <<"M", c.p0[1], c.p0[2], "C", c.p1[1], c.p1[2],
               c.p2[1], c.p2[2], c.p3[1], c.p3[2]>>

\* The greatest common divisor of two naturals, not both 0.
RECURSIVE GCD(_, _)
GCD(a, b) == IF b = 0 THEN a ELSE GCD(b, a % b)

\* The number v / d: an integer when d divides v, else the fraction in
\* lowest terms <<numerator, denominator>>.
Num(v, d) ==
    IF v % d = 0 THEN v \div d
    ELSE LET g == GCD(Abs(v), d) IN <<v \div g, d \div g>>

\* generate_partial_bezier_path gone wrong: progress is not clamped, and
\* the full curve is taken for progress = 1 only.
generate_partial_bezier_path_unclamped(start_x, start_y, end_x, end_y, z, min_offset, i, n) ==
    LET c  == ControlPoints(start_x, start_y, end_x, end_y, z, min_offset)
        q0 == <<n * c.p0[1] + (c.p1[1] - c.p0[1]) * i, n * c.p0[2] + (c.p1[2] - c.p0[2]) * i>>
        q1 == <<n * c.p1[1] + (c.p2[1] - c.p1[1]) * i, n * c.p1[2] + (c.p2[2] - c.p1[2]) * i>>
        q2 == <<n * c.p2[1] + (c.p3[1] - c.p2[1]) * i, n * c.p2[2] + (c.p3[2] - c.p2[2]) * i>>
        r0 == <<n * q0[1] + (q1[1] - q0[1]) * i, n * q0[2] + (q1[2] - q0[2]) * i>>
        r1 == <<n * q1[1] + (q2[1] - q1[1]) * i, n * q1[2] + (q2[2] - q1[2]) * i>>
        s  == <<n * r0[1] + (r1[1] - r0[1]) * i, n * r0[2] + (r1[2] - r0[2]) * i>>
    IN  IF i <= 0
        THEN <<"M", c.p0[1], c.p0[2], "L", c.p0[1], c.p0[2]>>
        ELSE IF i = n
        THEN generate_bezier_path(start_x, start_y, end_x, end_y, z, min_offset)
        ELSE IF c.straight
        THEN <<"M", c.p0[1], c.p0[2], "L",
               Num(n * c.p0[1] + (c.p3[1] - c.p0[1]) * i, n),
               Num(n * c.p0[2] + (c.p3[2] - c.p0[2]) * i, n)>>
        ELSE <<"M", c.p0[1], c.p0[2], "C", Num(q0[1], n), Num(q0[2], n),
               Num(r0[1], n * n), Num(r0[2], n * n), Num(s[1], n * n * n), Num(s[2], n * n * n)>>

\* generate_partial_bezier_path for progress = i / n, the numbers of the
\* path in half pixels.  t = progress.clamp(0.0, 1.0); q, r and s are the
\* de Casteljau points of levels 1, 2 and 3, times n, n^2 and n^3.
generate_partial_bezier_path(start_x, start_y, end_x, end_y, z, min_offset, i, n) ==
    LET t  == IF i < 0 THEN 0 ELSE IF i > n THEN n ELSE i
        c  == ControlPoints(start_x, start_y, end_x, end_y, z, min_offset)
        q0 == <<n * c.p0[1] + (c.p1[1] - c.p0[1]) * t, n * c.p0[2] + (c.p1[2] - c.p0[2]) * t>>
        q1 == <<n * c.p1[1] + (c.p2[1] - c.p1[1]) * t, n * c.p1[2] + (c.p2[2] - c.p1[2]) * t>>
        q2 == <<n * c.p2[1] + (c.p3[1] - c.p2[1]) * t, n * c.p2[2] + (c.p3[2] - c.p2[2]) * t>>
        r0 == <<n * q0[1] + (q1[1] - q0[1]) * t, n * q0[2] + (q1[2] - q0[2]) * t>>
        r1 == <<n * q1[1] + (q2[1] - q1[1]) * t, n * q1[2] + (q2[2] - q1[2]) * t>>
        s  == <<n * r0[1] + (r1[1] - r0[1]) * t, n * r0[2] + (r1[2] - r0[2]) * t>>
    IN  IF t <= 0
        THEN <<"M", c.p0[1], c.p0[2], "L", c.p0[1], c.p0[2]>>
        ELSE IF t >= n
        THEN generate_bezier_path(start_x, start_y, end_x, end_y, z, min_offset)
        ELSE IF c.straight
        THEN <<"M", c.p0[1], c.p0[2], "L",
               Num(n * c.p0[1] + (c.p3[1] - c.p0[1]) * t, n),
               Num(n * c.p0[2] + (c.p3[2] - c.p0[2]) * t, n)>>
        ELSE <<"M", c.p0[1], c.p0[2], "C", Num(q0[1], n), Num(q0[2], n),
               Num(r0[1], n * n), Num(r0[2], n * n), Num(s[1], n * n * n), Num(s[2], n * n * n)>>

\* CubicBezier::from_endpoints: the four control points, in half pixels.
from_endpoints(start_x, start_y, end_x, end_y, z, min_offset) ==
    LET c == ControlPoints(start_x, start_y, end_x, end_y, z, min_offset)
    IN  IF c.straight
        THEN [p0 |-> c.p0, p1 |-> c.p0, p2 |-> c.p3, p3 |-> c.p3]
        ELSE [p0 |-> c.p0, p1 |-> c.p1, p2 |-> c.p2, p3 |-> c.p3]

\* CubicBezier::eval at t = i/n, times n^3 (so in units of 1/(2 n^3) pixel).
eval(bezier, i, n) ==
    LET mt == n - i
        b0 == mt * mt * mt
        b1 == 3 * mt * mt * i
        b2 == 3 * mt * i * i
        b3 == i * i * i
    IN  <<b0 * bezier.p0[1] + b1 * bezier.p1[1] + b2 * bezier.p2[1] + b3 * bezier.p3[1],
          b0 * bezier.p0[2] + b1 * bezier.p1[2] + b2 * bezier.p2[2] + b3 * bezier.p3[2]>>

\* distance_to_line_segment_sq, exactly: with t = clamp(ap.ab / |ab|^2, 0, 1)
\* the squared distance to a + t ab is |ap|^2 for t = 0, |bp|^2 for t = 1 and
\* |ap|^2 - (ap.ab)^2 / |ab|^2 in between.  |ab|^2 < f32::EPSILON is |ab|^2 = 0
\* on the model's grid.
distance_to_line_segment_sq(point, a, b) ==
    LET abx       == b[1] - a[1]
        aby       == b[2] - a[2]
        apx       == point[1] - a[1]
        apy       == point[2] - a[2]
        ab_len_sq == abx * abx + aby * aby
        ap_len_sq == apx * apx + apy * apy
        dot       == apx * abx + apy * aby
    IN  IF ab_len_sq = 0 THEN Whole(ap_len_sq)
        ELSE IF dot <= 0 THEN Whole(ap_len_sq)
        ELSE IF dot >= ab_len_sq
             THEN Whole((point[1] - b[1]) * (point[1] - b[1])
                        + (point[2] - b[2]) * (point[2] - b[2]))
        ELSE LET p == MulDivMod(dot, dot, ab_len_sq)
             IN  IF p[2] = 0
                 THEN [q |-> ap_len_sq - p[1], r |-> 0, d |-> 1]
                 ELSE [q |-> ap_len_sq - p[1] - 1, r |-> ab_len_sq - p[2], d |-> ab_len_sq]

\* f32::MAX, the initial min_dist_sq: larger than every distance.
F32Max == [q |-> -1, r |-> 0, d |-> 1]

SampleCount(num_samples) == IF num_samples = 0 THEN DefaultSamples ELSE num_samples

\* The loop of distance_to_bezier over segments i..n, min_dist_sq so far in m.
RECURSIVE MinSegmentDistSq(_, _, _, _, _)
MinSegmentDistSq(point, bezier, i, n, m) ==
    IF i > n THEN m
    ELSE LET d == distance_to_line_segment_sq(point, eval(bezier, i - 1, n), eval(bezier, i, n))
         IN  MinSegmentDistSq(point, bezier, i + 1, n,
                              IF m.q < 0 \/ MixedLt(d, m) THEN d ELSE m)

\* distance_to_bezier, squared, for the point (x, y) in pixels: the result is
\* in units of (1/(2 n^3) pixel)^2 with n = SampleCount(num_samples).  The
\* code returns the square root; comparisons of distances are made on squares.
distance_to_bezier_sq(x, y, bezier, num_samples) ==
    LET n == SampleCount(num_samples)
        s == 2 * n * n * n
    IN  MinSegmentDistSq(<<x * s, y * s>>, bezier, 1, n, F32Max)

-----------------------------------------------------------------------------
(* src/src/hit_test.rs                                                     *)
(* Iterators are sequences: pins of [id, x, y], links of                   *)
(* [id, start_x, start_y, end_x, end_y], nodes of [id, x, y, width, height]*)

NoPin == 0       \* find_pin_at's "no pin found"

NoLink == -1     \* find_link_at's initial closest_link_id

\* The test of find_pin_at gone wrong: a pin on the radius is missed.
WithinRadius_strict(dist_sq, hit_radius_sq) == dist_sq < hit_radius_sq

\* dx * dx + dy * dy <= hit_radius_sq
WithinRadius(dist_sq, hit_radius_sq) == dist_sq <= hit_radius_sq

\* The for loop of find_pin_at from position i on.
RECURSIVE FindPinFrom(_, _, _, _, _)
FindPinFrom(mouse_x, mouse_y, pins, hit_radius_sq, i) ==
    IF i > Len(pins) THEN NoPin
    ELSE LET dx == mouse_x - pins[i].x
             dy == mouse_y - pins[i].y
         IN  IF WithinRadius(dx * dx + dy * dy, hit_radius_sq)
             THEN pins[i].id
             ELSE FindPinFrom(mouse_x, mouse_y, pins, hit_radius_sq, i + 1)

\* find_pin_at gone wrong: the radius is compared unsquared.
find_pin_at_radius_not_squared(mouse_x, mouse_y, pins, hit_radius) ==
    FindPinFrom(mouse_x, mouse_y, pins, hit_radius, 1)

find_pin_at(mouse_x, mouse_y, pins, hit_radius) ==
    FindPinFrom(mouse_x, mouse_y, pins, hit_radius * hit_radius, 1)

\* The squared distance of link l's curve to the mouse, as find_link_at
\* measures it.
LinkDistSq(mouse_x, mouse_y, l, z, bezier_min_offset, hit_samples) ==
    distance_to_bezier_sq(mouse_x, mouse_y,
        from_endpoints(l.start_x, l.start_y, l.end_x, l.end_y, z, bezier_min_offset),
        hit_samples)

\* hover_distance as a squared distance in the units of distance_to_bezier_sq.
\* A distance is a square root, so never below zero: nothing is closer than
\* a hover_distance <= 0.
HoverSq(hover_distance, hit_samples) ==
    LET n == SampleCount(hit_samples)
        s == 2 * n * n * n
    IN  IF hover_distance > 0
        THEN Whole(hover_distance * s * hover_distance * s)
        ELSE Whole(0)

\* The test of find_link_at gone wrong: a link as close as the closest so
\* far replaces it.
DistanceLess_or_equal(distance_sq, closest_sq) == ~MixedLt(closest_sq, distance_sq)

\* distance < closest_distance
DistanceLess(distance_sq, closest_sq) == MixedLt(distance_sq, closest_sq)

\* The for loop of find_link_at from position i on, with closest_link_id and
\* closest_distance (squared) so far.
RECURSIVE FindLinkFrom(_, _, _, _, _, _, _, _, _)
FindLinkFrom(mouse_x, mouse_y, ls, z, bezier_min_offset, hit_samples, i, closest_link_id, closest_sq) ==
    IF i > Len(ls) THEN closest_link_id
    ELSE LET distance_sq == LinkDistSq(mouse_x, mouse_y, ls[i], z, bezier_min_offset, hit_samples)
             closer      == DistanceLess(distance_sq, closest_sq)
         IN  FindLinkFrom(mouse_x, mouse_y, ls, z, bezier_min_offset, hit_samples, i + 1,
                          IF closer THEN ls[i].id ELSE closest_link_id,
                          IF closer THEN distance_sq ELSE closest_sq)

find_link_at(mouse_x, mouse_y, ls, hover_distance, z, bezier_min_offset, hit_samples) ==
    FindLinkFrom(mouse_x, mouse_y, ls, z, bezier_min_offset, hit_samples, 1,
                 NoLink, HoverSq(hover_distance, hit_samples))

\* collect() of a filtered iterator: options holds, for every item in order,
\* <<>> when the item is dropped and <<y>> when y is yielded; the result is
\* the sequence of the yielded values from position i on.
RECURSIVE Collect(_, _)
Collect(options, i) ==
    IF i > Len(options) THEN <<>> ELSE options[i] \o Collect(options, i + 1)

\* The node test gone wrong: closed intervals, as the link test has.
NodeOverlapsBox_closed(sel_x, sel_y, sel_width, sel_height, node) ==
    /\ node.x <= sel_x + sel_width
    /\ node.x + node.width >= sel_x
    /\ node.y <= sel_y + sel_height
    /\ node.y + node.height >= sel_y

NodeOverlapsBox(sel_x, sel_y, sel_width, sel_height, node) ==
    /\ node.x < sel_x + sel_width
    /\ node.x + node.width > sel_x
    /\ node.y < sel_y + sel_height
    /\ node.y + node.height > sel_y

nodes_in_selection_box(sel_x, sel_y, sel_width, sel_height, nodes) ==
    LET Keep(n) == NodeOverlapsBox(sel_x, sel_y, sel_width, sel_height, n)
    IN  Collect([k \in 1..Len(nodes) |-> IF Keep(nodes[k]) THEN <<nodes[k].id>> ELSE <<>>], 1)

LinkEndInBox(sel_x, sel_y, sel_width, sel_height, link) ==
    LET start_in_box == /\ link.start_x >= sel_x /\ link.start_x <= sel_x + sel_width
                        /\ link.start_y >= sel_y /\ link.start_y <= sel_y + sel_height
        end_in_box   == /\ link.end_x >= sel_x /\ link.end_x <= sel_x + sel_width
                        /\ link.end_y >= sel_y /\ link.end_y <= sel_y + sel_height
    IN  start_in_box \/ end_in_box

links_in_selection_box(sel_x, sel_y, sel_width, sel_height, ls) ==
    LET Keep(l) == LinkEndInBox(sel_x, sel_y, sel_width, sel_height, l)
    IN  Collect([k \in 1..Len(ls) |-> IF Keep(ls[k]) THEN <<ls[k].id>> ELSE <<>>], 1)

-----------------------------------------------------------------------------
(* Hash maps and their iteration                                           *)
(* A HashMap is a function on the set of its keys.  The order in which a   *)
(* HashMap is iterated is not fixed by the code: an iteration is given the *)
(* order it meets the keys in, and statements about it quantify over       *)
(* Orders(map).                                                            *)

EmptyMap == <<>>

Insert(map, key, value) ==
    [k \in (DOMAIN map) \cup {key} |-> IF k = key THEN value ELSE map[k]]

Remove(map, key) == [k \in (DOMAIN map) \ {key} |-> map[k]]

Orders(map) ==
    LET keys == DOMAIN map
        n    == Cardinality(keys)
    IN  {o \in [1..n -> keys] : \A i, j \in 1..n : i # j => o[i] # o[j]}

-----------------------------------------------------------------------------
(* src/src/state.rs: GeometryCache, as operators on its two maps           *)

\* Option<String>::None; a Some(path) is the path.
None == <<"None">>

\* The absolute position of a stored pin whose node has a rectangle.
AbsX(nodes, pin_pos) == nodes[pin_pos.node_id].x + pin_pos.rel_x

AbsY(nodes, pin_pos) == nodes[pin_pos.node_id].y + pin_pos.rel_y

\* get_absolute_pins gone wrong: a pin whose node has no rectangle is placed
\* as if its node were at the origin instead of being skipped.
get_absolute_pins_orphans_at_origin(nodes, pins, pin_order) ==
    LET F(pin_id) ==
            IF pins[pin_id].node_id \notin DOMAIN nodes
            THEN <<[id |-> pin_id, x |-> pins[pin_id].rel_x, y |-> pins[pin_id].rel_y]>>
            ELSE <<[id |-> pin_id,
                    x  |-> AbsX(nodes, pins[pin_id]),
                    y  |-> AbsY(nodes, pins[pin_id])]>>
    IN  Collect([k \in 1..Len(pin_order) |-> F(pin_order[k])], 1)

\* get_absolute_pins, the pins met in the order pin_order.
get_absolute_pins(nodes, pins, pin_order) ==
    LET F(pin_id) ==
            IF pins[pin_id].node_id \notin DOMAIN nodes THEN <<>>
            ELSE <<[id |-> pin_id,
                    x  |-> AbsX(nodes, pins[pin_id]),
                    y  |-> AbsY(nodes, pins[pin_id])]>>
    IN  Collect([k \in 1..Len(pin_order) |-> F(pin_order[k])], 1)

\* Both pins of (start_pin, end_pin) are stored and both their nodes have a
\* rectangle: the four `?` of get_absolute_links and compute_link_path pass.
Resolves(nodes, pins, start_pin, end_pin) ==
    /\ start_pin \in DOMAIN pins
    /\ end_pin \in DOMAIN pins
    /\ pins[start_pin].node_id \in DOMAIN nodes
    /\ pins[end_pin].node_id \in DOMAIN nodes

\* get_absolute_links over the sequence ls of <<id, start_pin, end_pin>>.
get_absolute_links(nodes, pins, ls) ==
    LET F(l) ==
            IF ~Resolves(nodes, pins, l[2], l[3]) THEN <<>>
            ELSE <<[id      |-> l[1],
                    start_x |-> AbsX(nodes, pins[l[2]]),
                    start_y |-> AbsY(nodes, pins[l[2]]),
                    end_x   |-> AbsX(nodes, pins[l[3]]),
                    end_y   |-> AbsY(nodes, pins[l[3]])]>>
    IN  Collect([k \in 1..Len(ls) |-> F(ls[k])], 1)

GeometryCache_find_pin_at(nodes, pins, pin_order, x, y, hit_radius) ==
    find_pin_at(x, y, get_absolute_pins(nodes, pins, pin_order), hit_radius)

GeometryCache_find_link_at(nodes, pins, x, y, ls, hover_distance, z, bezier_min_offset, hit_samples) ==
    find_link_at(x, y, get_absolute_links(nodes, pins, ls), hover_distance, z,
                 bezier_min_offset, hit_samples)

\* node_rects.values() met in the order node_order.
NodeValues(nodes, node_order) == [i \in 1..Len(node_order) |-> nodes[node_order[i]]]

GeometryCache_nodes_in_selection_box(nodes, node_order, x, y, width, height) ==
    nodes_in_selection_box(x, y, width, height, NodeValues(nodes, node_order))

GeometryCache_links_in_selection_box(nodes, pins, x, y, width, height, ls) ==
    links_in_selection_box(x, y, width, height, get_absolute_links(nodes, pins, ls))

compute_link_path(nodes, pins, start_pin, end_pin, z, bezier_min_offset) ==
    IF start_pin \notin DOMAIN pins THEN None
    ELSE IF end_pin \notin DOMAIN pins THEN None
    ELSE IF pins[start_pin].node_id \notin DOMAIN nodes THEN None
    ELSE IF pins[end_pin].node_id \notin DOMAIN nodes THEN None
    ELSE generate_bezier_path(AbsX(nodes, pins[start_pin]), AbsY(nodes, pins[start_pin]),
                              AbsX(nodes, pins[end_pin]), AbsY(nodes, pins[end_pin]),
                              z, bezier_min_offset)

\* compute_link_path_screen gone wrong: the rectangle of the end pin's node
\* is not required, a missing one counts as the origin.
compute_link_path_screen_end_node_defaulted(nodes, pins, start_pin, end_pin, z, px, py, bezier_min_offset) ==
    IF start_pin \notin DOMAIN pins THEN None
    ELSE IF end_pin \notin DOMAIN pins THEN None
    ELSE IF pins[start_pin].node_id \notin DOMAIN nodes THEN None
    ELSE LET known == pins[end_pin].node_id \in DOMAIN nodes
             sx == AbsX(nodes, pins[start_pin]) * z + px
             sy == AbsY(nodes, pins[start_pin]) * z + py
             ex == (IF known THEN AbsX(nodes, pins[end_pin]) ELSE pins[end_pin].rel_x) * z + px
             ey == (IF known THEN AbsY(nodes, pins[end_pin]) ELSE pins[end_pin].rel_y) * z + py
         IN  generate_bezier_path(sx, sy, ex, ey, z, bezier_min_offset)

compute_link_path_screen(nodes, pins, start_pin, end_pin, z, px, py, bezier_min_offset) ==
    IF start_pin \notin DOMAIN pins THEN None
    ELSE IF end_pin \notin DOMAIN pins THEN None
    ELSE IF pins[start_pin].node_id \notin DOMAIN nodes THEN None
    ELSE IF pins[end_pin].node_id \notin DOMAIN nodes THEN None
    ELSE LET sx == AbsX(nodes, pins[start_pin]) * z + px
             sy == AbsY(nodes, pins[start_pin]) * z + py
             ex == AbsX(nodes, pins[end_pin]) * z + px
             ey == AbsY(nodes, pins[end_pin]) * z + py
         IN  generate_bezier_path(sx, sy, ex, ey, z, bezier_min_offset)

\* handle_pin_report: the pin map after the report.
handle_pin_report(pins, pin_id, node_id, pin_type, rel_x, rel_y) ==
    Insert(pins, pin_id,
           [node_id |-> node_id, pin_type |-> pin_type, rel_x |-> rel_x, rel_y |-> rel_y])

\* update_node_rect gone wrong: an id that has an entry keeps it.
update_node_rect_keeps_first(nodes, id, x, y, width, height) ==
    IF id \in DOMAIN nodes THEN nodes
    ELSE Insert(nodes, id, [id |-> id, x |-> x, y |-> y, width |-> width, height |-> height])

\* update_node_rect: the node map after the update.
update_node_rect(nodes, id, x, y, width, height) ==
    Insert(nodes, id, [id |-> id, x |-> x, y |-> y, width |-> width, height |-> height])

handle_node_rect_report(nodes, id, x, y, w, h) == update_node_rect(nodes, id, x, y, w, h)

-----------------------------------------------------------------------------
(* src/src/controller.rs: ViewportState and NodeEditorController           *)
(* The queries are operators of the cache's two maps and of the viewport   *)
(* state s = [zoom, pan_x, pan_y, bezier_offset, links].                   *)

DefaultBezierOffset == 50    \* ViewportState::new: bezier_offset: 50.0

\* The viewport state of the current model state.
State == [zoom |-> zoom, pan_x |-> pan_x, pan_y |-> pan_y,
          bezier_offset |-> bezier_offset, links |-> links]

safe_zoom(s) == IF s.zoom > 0 THEN s.zoom ELSE 1

\* a / z for a value the model can hold: z divides a.
Divisible(a, z) == a % z = 0

Quot(a, z) == a \div z

\* Option<String>::unwrap_or_default: None becomes the empty string.
EmptyString == <<>>

unwrap_or_default(o) == IF o = None THEN EmptyString ELSE o

\* NodeEditorController::compute_link_path, and the closure returned by
\* compute_link_path_callback, whose body is the same.
Controller_compute_link_path(nodes, pins, s, start_pin, end_pin) ==
    unwrap_or_default(
        compute_link_path_screen(nodes, pins, start_pin, end_pin,
                                 s.zoom, s.pan_x, s.pan_y, s.bezier_offset))

compute_link_path_callback(nodes, pins, s, start_pin, end_pin) ==
    unwrap_or_default(
        compute_link_path_screen(nodes, pins, start_pin, end_pin,
                                 s.zoom, s.pan_x, s.pan_y, s.bezier_offset))

\* The world rectangle gone wrong: the pan is not taken off the position.
WorldRect_pan_kept(s, x, y, w, h) ==
    LET z == safe_zoom(s)
    IN  <<Quot(x, z), Quot(y, z), Quot(w, z), Quot(h, z)>>

\* The world rectangle handle_node_rect stores for a screen rectangle.
WorldRect(s, x, y, w, h) ==
    LET z == safe_zoom(s)
    IN  <<Quot(x - s.pan_x, z), Quot(y - s.pan_y, z), Quot(w, z), Quot(h, z)>>

\* The model can hold the world rectangle of this screen rectangle.
WorldRectExact(s, x, y, w, h) ==
    LET z == safe_zoom(s)
    IN  /\ Divisible(x - s.pan_x, z) /\ Divisible(y - s.pan_y, z)
        /\ Divisible(w, z) /\ Divisible(h, z)

\* ScreenLinkGeometries gone wrong: a link whose geometry is missing is
\* put at the pan point.
ScreenLinkGeometries_missing_at_pan(nodes, pins, s, link_order) ==
    LET z == safe_zoom(s)
        F(id) ==
            LET start_pin == s.links[id][1]
                end_pin   == s.links[id][2]
            IN  IF ~Resolves(nodes, pins, start_pin, end_pin)
                THEN <<[id |-> id, start_x |-> s.pan_x, start_y |-> s.pan_y,
                        end_x |-> s.pan_x, end_y |-> s.pan_y]>>
                ELSE <<[id      |-> id,
                        start_x |-> AbsX(nodes, pins[start_pin]) * z + s.pan_x,
                        start_y |-> AbsY(nodes, pins[start_pin]) * z + s.pan_y,
                        end_x   |-> AbsX(nodes, pins[end_pin]) * z + s.pan_x,
                        end_y   |-> AbsY(nodes, pins[end_pin]) * z + s.pan_y]>>
    IN  Collect([k \in 1..Len(link_order) |-> F(link_order[k])], 1)

\* The link geometries find_link_at_screen builds, the registry met in the
\* order link_order: world -> screen, (node_world + pin_rel) * zoom + pan.
ScreenLinkGeometries(nodes, pins, s, link_order) ==
    LET z == safe_zoom(s)
        F(id) ==
            LET start_pin == s.links[id][1]
                end_pin   == s.links[id][2]
            IN  IF ~Resolves(nodes, pins, start_pin, end_pin) THEN <<>>
                ELSE <<[id      |-> id,
                        start_x |-> AbsX(nodes, pins[start_pin]) * z + s.pan_x,
                        start_y |-> AbsY(nodes, pins[start_pin]) * z + s.pan_y,
                        end_x   |-> AbsX(nodes, pins[end_pin]) * z + s.pan_x,
                        end_y   |-> AbsY(nodes, pins[end_pin]) * z + s.pan_y]>>
    IN  Collect([k \in 1..Len(link_order) |-> F(link_order[k])], 1)

find_link_at_screen(nodes, pins, s, link_order, mouse_x, mouse_y, hover_distance, bezier_min_offset, hit_samples) ==
    find_link_at(mouse_x, mouse_y, ScreenLinkGeometries(nodes, pins, s, link_order),
                 hover_distance, safe_zoom(s), bezier_min_offset, hit_samples)

\* The pin geometries find_pin_at_screen builds, the pins met in pin_order.
ScreenPinGeometries(nodes, pins, s, pin_order) ==
    LET z == safe_zoom(s)
        F(pin_id) ==
            IF pins[pin_id].node_id \notin DOMAIN nodes THEN <<>>
            ELSE <<[id |-> pin_id,
                    x  |-> AbsX(nodes, pins[pin_id]) * z + s.pan_x,
                    y  |-> AbsY(nodes, pins[pin_id]) * z + s.pan_y]>>
    IN  Collect([k \in 1..Len(pin_order) |-> F(pin_order[k])], 1)

find_pin_at_screen(nodes, pins, s, pin_order, mouse_x, mouse_y, hit_radius) ==
    find_pin_at(mouse_x, mouse_y, ScreenPinGeometries(nodes, pins, s, pin_order), hit_radius)

\* The screen box (sx, sy, sw, sh) in world space; exact when
\* WorldRectExact(s, sx, sy, sw, sh).
nodes_in_selection_box_screen(nodes, s, node_order, sx, sy, sw, sh) ==
    LET w == WorldRect(s, sx, sy, sw, sh)
    IN  GeometryCache_nodes_in_selection_box(nodes, node_order, w[1], w[2], w[3], w[4])

\* The link geometries links_in_selection_box_screen builds: world space.
WorldLinkGeometries(nodes, pins, s, link_order) ==
    LET F(id) ==
            LET start_pin == s.links[id][1]
                end_pin   == s.links[id][2]
            IN  IF ~Resolves(nodes, pins, start_pin, end_pin) THEN <<>>
                ELSE <<[id      |-> id,
                        start_x |-> AbsX(nodes, pins[start_pin]),
                        start_y |-> AbsY(nodes, pins[start_pin]),
                        end_x   |-> AbsX(nodes, pins[end_pin]),
                        end_y   |-> AbsY(nodes, pins[end_pin])]>>
    IN  Collect([k \in 1..Len(link_order) |-> F(link_order[k])], 1)

links_in_selection_box_screen(nodes, pins, s, link_order, sx, sy, sw, sh) ==
    LET w == WorldRect(s, sx, sy, sw, sh)
    IN  links_in_selection_box(w[1], w[2], w[3], w[4],
                               WorldLinkGeometries(nodes, pins, s, link_order))

-----------------------------------------------------------------------------
(* Bounds and inputs of the controller's operations                        *)

MaxNode == 2     \* node ids are 1..MaxNode
MaxPin == 2      \* pin ids are 1..MaxPin
MaxLink == 1     \* link ids are 1..MaxLink

NodeIds == 1..MaxNode
PinIds == 1..MaxPin
LinkIds == 1..MaxLink

\* Screen rectangles <<x, y, w, h>> the UI reports.
ScreenRects == {<<24, 12, 12, 4>>}

\* Pin reports <<node_id, pin_type, rel_x, rel_y>>: an output pin on the right
\* edge of node 1, an input pin on the left edge of node 2.
PinInputs == {<<1, 2, 12, 2>>, <<2, 1, 0, 2>>}

Zooms == {-1, 0, 1, 2}

Pans == {<<0, 0>>, <<4, 2>>}

BezierOffsets == {6}

-----------------------------------------------------------------------------
(* The controller's operations.  Each action is the handler's effect on    *)
(* the controller; the specifications add what they record about the step. *)

InitController ==
    /\ node_rects = EmptyMap
    /\ pin_positions = EmptyMap
    /\ zoom = 1
    /\ pan_x = 0
    /\ pan_y = 0
    /\ bezier_offset = DefaultBezierOffset
    /\ dragged_node_id = 0
    /\ links = EmptyMap

set_bezier_offset(offset) ==
    /\ bezier_offset' = offset
    /\ UNCHANGED <<zoom, pan_x, pan_y, dragged_node_id, links, node_rects, pin_positions>>

\* The closure returned by node_drag_started_callback.
node_drag_started_callback(node_id) ==
    /\ dragged_node_id' = node_id
    /\ UNCHANGED <<zoom, pan_x, pan_y, bezier_offset, links, node_rects, pin_positions>>

handle_node_rect(id, x, y, w, h) ==
    /\ WorldRectExact(State, x, y, w, h)
    /\ LET world == WorldRect(State, x, y, w, h)
       IN  node_rects' = handle_node_rect_report(node_rects, id,
                                                world[1], world[2], world[3], world[4])
    /\ UNCHANGED <<pin_positions, zoom, pan_x, pan_y, bezier_offset, dragged_node_id, links>>

handle_pin_position(pid, nid, ptype, x, y) ==
    /\ pin_positions' = handle_pin_report(pin_positions, pid, nid, ptype, x, y)
    /\ UNCHANGED <<node_rects, zoom, pan_x, pan_y, bezier_offset, dragged_node_id, links>>

seed_node_world_rect(id, x, y, w, h) ==
    /\ node_rects' = handle_node_rect_report(node_rects, id, x, y, w, h)
    /\ UNCHANGED <<pin_positions, zoom, pan_x, pan_y, bezier_offset, dragged_node_id, links>>

handle_node_drag_started(node_id) ==
    /\ dragged_node_id' = node_id
    /\ UNCHANGED <<zoom, pan_x, pan_y, bezier_offset, links, node_rects, pin_positions>>

set_zoom(z) ==
    /\ zoom' = z
    /\ UNCHANGED <<pan_x, pan_y, bezier_offset, dragged_node_id, links,
                   node_rects, pin_positions>>

\* set_viewport gone wrong: the cached node rectangles are dropped with the
\* old viewport.
set_viewport_drops_rects(z, px, py) ==
    /\ zoom' = z
    /\ pan_x' = px
    /\ pan_y' = py
    /\ node_rects' = EmptyMap
    /\ UNCHANGED <<bezier_offset, dragged_node_id, links, pin_positions>>

set_viewport(z, px, py) ==
    /\ zoom' = z
    /\ pan_x' = px
    /\ pan_y' = py
    /\ UNCHANGED <<bezier_offset, dragged_node_id, links, node_rects, pin_positions>>

\* register_link gone wrong: an id that is registered keeps its pins.
register_link_keeps_first(id, start_pin, end_pin) ==
    /\ links' = (IF id \in DOMAIN links THEN links ELSE Insert(links, id, <<start_pin, end_pin>>))
    /\ UNCHANGED <<zoom, pan_x, pan_y, bezier_offset, dragged_node_id,
                   node_rects, pin_positions>>

register_link(id, start_pin, end_pin) ==
    /\ links' = Insert(links, id, <<start_pin, end_pin>>)
    /\ UNCHANGED <<zoom, pan_x, pan_y, bezier_offset, dragged_node_id,
                   node_rects, pin_positions>>

unregister_link(id) ==
    /\ links' = Remove(links, id)
    /\ UNCHANGED <<zoom, pan_x, pan_y, bezier_offset, dragged_node_id,
                   node_rects, pin_positions>>

clear_links ==
    /\ links' = EmptyMap
    /\ UNCHANGED <<zoom, pan_x, pan_y, bezier_offset, dragged_node_id,
                   node_rects, pin_positions>>

clear_geometry ==
    /\ node_rects' = EmptyMap
    /\ pin_positions' = EmptyMap
    /\ UNCHANGED <<zoom, pan_x, pan_y, bezier_offset, dragged_node_id, links>>

-----------------------------------------------------------------------------
(* Spec: the controller, every operation that changes it, with the name of *)
(* the operation performed last in op.                                     *)

InitOther ==
    /\ selected = {}
    /\ model = <<>>
    /\ reported_nodes = EmptyMap
    /\ reported_pins = EmptyMap
    /\ borrows = Unborrowed
    /\ op = [name |-> "new"]
    /\ ret = 0

Init == InitController /\ InitOther

Did(name) ==
    /\ op' = [name |-> name]
    /\ UNCHANGED <<selected, model, borrows, reported_nodes, reported_pins, ret>>

Next ==
    \/ \E o \in BezierOffsets : set_bezier_offset(o) /\ Did("set_bezier_offset")
    \/ \E n \in NodeIds : node_drag_started_callback(n) /\ Did("node_drag_started_callback")
    \/ \E n \in NodeIds, r \in ScreenRects :
            handle_node_rect(n, r[1], r[2], r[3], r[4]) /\ Did("handle_node_rect")
    \/ \E p \in PinIds, i \in PinInputs :
            handle_pin_position(p, i[1], i[2], i[3], i[4]) /\ Did("handle_pin_position")
    \/ \E n \in NodeIds, r \in ScreenRects :
            seed_node_world_rect(n, r[1], r[2], r[3], r[4]) /\ Did("seed_node_world_rect")
    \/ \E n \in NodeIds : handle_node_drag_started(n) /\ Did("handle_node_drag_started")
    \/ \E z \in Zooms : set_zoom(z) /\ Did("set_zoom")
    \/ \E z \in Zooms, p \in Pans : set_viewport(z, p[1], p[2]) /\ Did("set_viewport")
    \/ \E l \in LinkIds, a \in PinIds, b \in PinIds :
            register_link(l, a, b) /\ Did("register_link")
    \/ \E l \in LinkIds : unregister_link(l) /\ Did("unregister_link")
    \/ clear_links /\ Did("clear_links")
    \/ clear_geometry /\ Did("clear_geometry")

Spec == Init /\ [][Next]_vars

-----------------------------------------------------------------------------
(* SpecGeom: the geometry the queries read (cache, viewport, registry),    *)
(* built by reports, viewport updates and link registrations.              *)

Quiet == UNCHANGED <<selected, model, borrows, reported_nodes, reported_pins, op, ret>>

NextGeom ==
    \/ \E n \in NodeIds, r \in ScreenRects :
            handle_node_rect(n, r[1], r[2], r[3], r[4]) /\ Quiet
    \/ \E p \in PinIds, i \in PinInputs :
            handle_pin_position(p, i[1], i[2], i[3], i[4]) /\ Quiet
    \/ \E z \in Zooms, p \in Pans : set_viewport(z, p[1], p[2]) /\ Quiet
    \/ \E l \in LinkIds, a \in PinIds, b \in PinIds : register_link(l, a, b) /\ Quiet

SpecGeom == Init /\ [][NextGeom]_vars

-----------------------------------------------------------------------------
(* Inputs of the queries                                                   *)

\* Mouse positions and box corners: where pins can come to lie on the screen
\* and in the world, a pin offset taken as a position, and a far point.
QueryPoints == {<<0, 2>>, <<12, 2>>, <<36, 14>>, <<24, 14>>, <<28, 14>>, <<100, 100>>}

HitRadii == {0, 6}

HoverDistances == {0, 3, 8}

BoxSizes == {<<0, 0>>, <<12, 4>>, <<40, 20>>}

MinOffsets == {6, DefaultBezierOffset}

HitSamples == {1, 3}

\* Pin ids no report ever used.
UnknownPinIds == {0, MaxPin + 1}

\* The links of the registry as the <<id, start_pin, end_pin>> triples the
\* cache's link queries take, in the order link_order.
LinkTriples(s, link_order) ==
    [i \in 1..Len(link_order) |->
        <<link_order[i], s.links[link_order[i]][1], s.links[link_order[i]][2]>>]

\* The elements of a sequence.
Range(seq) == {seq[i] : i \in 1..Len(seq)}

\* A well-formed path: "M x y L x y" or "M x y C x y x y x y".
IsPath(r) ==
    /\ Len(r) \in {6, 10}
    /\ r[1] = "M"
    /\ r[4] = (IF Len(r) = 6 THEN "L" ELSE "C")

-----------------------------------------------------------------------------
(* C1 *)

\* What each zoom-using conversion of the controller gives under viewport
\* state s, for all the inputs of the model.
ConversionsAgree(s, t) ==
    /\ \A a, b \in PinIds :
          /\ Controller_compute_link_path(node_rects, pin_positions, s, a, b)
               = Controller_compute_link_path(node_rects, pin_positions, t, a, b)
          /\ compute_link_path_callback(node_rects, pin_positions, s, a, b)
               = compute_link_path_callback(node_rects, pin_positions, t, a, b)
    /\ \A r \in ScreenRects :
          WorldRect(s, r[1], r[2], r[3], r[4]) = WorldRect(t, r[1], r[2], r[3], r[4])
    /\ \A m \in QueryPoints :
          /\ \A o \in Orders(pin_positions), r \in HitRadii :
                find_pin_at_screen(node_rects, pin_positions, s, o, m[1], m[2], r)
                  = find_pin_at_screen(node_rects, pin_positions, t, o, m[1], m[2], r)
          /\ \A o \in Orders(links), h \in HoverDistances, b \in MinOffsets, n \in HitSamples :
                find_link_at_screen(node_rects, pin_positions, s, o, m[1], m[2], h, b, n)
                  = find_link_at_screen(node_rects, pin_positions, t, o, m[1], m[2], h, b, n)
          /\ \A z \in BoxSizes :
                /\ \A o \in Orders(node_rects) :
                      nodes_in_selection_box_screen(node_rects, s, o, m[1], m[2], z[1], z[2])
                        = nodes_in_selection_box_screen(node_rects, t, o, m[1], m[2], z[1], z[2])
                /\ \A o \in Orders(links) :
                      links_in_selection_box_screen(node_rects, pin_positions, s, o,
                                                    m[1], m[2], z[1], z[2])
                        = links_in_selection_box_screen(node_rects, pin_positions, t, o,
                                                        m[1], m[2], z[1], z[2])

\* C1: whenever the stored zoom is <= 0, every conversion that uses the zoom
\* (the world rectangle handle_node_rect stores, compute_link_path and its
\* callback, and the four screen-space queries) gives what it gives with
\* zoom = 1.
C1_SafeZoomEverywhere ==
    zoom <= 0 => ConversionsAgree(State, [State EXCEPT !.zoom = 1])

-----------------------------------------------------------------------------
(* C2 *)

\* The pin, or the node that owns it, is absent from the cache.
PinOrNodeMissing(p) ==
    \/ p \notin DOMAIN pin_positions
    \/ pin_positions[p].node_id \notin DOMAIN node_rects

\* C2: GeometryCache::compute_link_path and compute_link_path_screen return
\* None exactly when the start pin, the end pin or the node owning either is
\* absent from the cache, and a path otherwise, for known and unknown ids.
C2_NoneIffMissing ==
    \A a, b \in PinIds \cup UnknownPinIds, z \in Zooms, m \in MinOffsets :
        LET missing == PinOrNodeMissing(a) \/ PinOrNodeMissing(b)
            same    == compute_link_path(node_rects, pin_positions, a, b, z, m)
        IN  /\ (same = None) <=> missing
            /\ ~missing => IsPath(same)
            /\ \A p \in Pans :
                  LET screen == compute_link_path_screen(node_rects, pin_positions, a, b,
                                                         z, p[1], p[2], m)
                  IN  /\ (screen = None) <=> missing
                      /\ ~missing => IsPath(screen)

\* A state where one pair of pins has a path, both ways, and another pair has
\* none because the node of a stored pin has no rectangle.
C2_Witness ==
    \E a, b, c \in DOMAIN pin_positions :
        /\ ~PinOrNodeMissing(a) /\ ~PinOrNodeMissing(b)
        /\ pin_positions[c].node_id \notin DOMAIN node_rects
        /\ IsPath(compute_link_path(node_rects, pin_positions, a, b, 1, DefaultBezierOffset))
        /\ IsPath(compute_link_path_screen(node_rects, pin_positions, a, b, zoom, pan_x, pan_y,
                                           DefaultBezierOffset))
        /\ compute_link_path(node_rects, pin_positions, a, c, 1, DefaultBezierOffset) = None
        /\ compute_link_path_screen(node_rects, pin_positions, c, a, zoom, pan_x, pan_y,
                                    DefaultBezierOffset) = None

-----------------------------------------------------------------------------
(* C3 *)

\* The stored pins whose node has no rectangle.
OrphanPins == {p \in DOMAIN pin_positions : pin_positions[p].node_id \notin DOMAIN node_rects}

\* The registered links with an end that is an unknown pin or an orphan pin.
UnresolvedLinks == {l \in DOMAIN links : PinOrNodeMissing(links[l][1]) \/ PinOrNodeMissing(links[l][2])}

\* C3: a pin whose node is not in the cache is stored by handle_pin_report
\* and is never returned by the cache's find_pin_at, and a link with such a
\* pin or an unknown pin is never returned by the cache's find_link_at or
\* links_in_selection_box, for every query and every iteration order.
C3_OrphansExcluded ==
    /\ OrphanPins # {} =>
          \A m \in QueryPoints, r \in HitRadii, o \in Orders(pin_positions) :
              GeometryCache_find_pin_at(node_rects, pin_positions, o, m[1], m[2], r)
                \notin OrphanPins
    /\ UnresolvedLinks # {} => \A m \in QueryPoints, o \in Orders(links) :
          /\ \A h \in HoverDistances, z \in Zooms, b \in MinOffsets, n \in HitSamples :
                GeometryCache_find_link_at(node_rects, pin_positions, m[1], m[2],
                                           LinkTriples(State, o), h, z, b, n)
                  \notin UnresolvedLinks
          /\ \A z \in BoxSizes :
                Range(GeometryCache_links_in_selection_box(node_rects, pin_positions,
                          m[1], m[2], z[1], z[2], LinkTriples(State, o)))
                  \cap UnresolvedLinks = {}

\* An orphan pin is stored next to a pin that is found, a registered link
\* uses the orphan pin, and queries at the orphan's offset find neither.
C3_Witness ==
    \E p \in OrphanPins, q \in DOMAIN pin_positions \ OrphanPins, l \in UnresolvedLinks :
        /\ p \in {links[l][1], links[l][2]}
        /\ \E o \in Orders(pin_positions) :
              /\ GeometryCache_find_pin_at(node_rects, pin_positions, o,
                     pin_positions[p].rel_x, pin_positions[p].rel_y, 6) = NoPin
              /\ GeometryCache_find_pin_at(node_rects, pin_positions, o,
                     AbsX(node_rects, pin_positions[q]), AbsY(node_rects, pin_positions[q]), 0) = q
        /\ GeometryCache_find_link_at(node_rects, pin_positions,
               pin_positions[p].rel_x, pin_positions[p].rel_y,
               LinkTriples(State, <<l>>), 8, 1, DefaultBezierOffset, 3) = NoLink

-----------------------------------------------------------------------------
(* SpecCache: a GeometryCache that receives node-rectangle and pin reports, *)
(* with the history of the reports: for every id reported, the arguments   *)
(* of its latest report and of the one before (<<>> when there was none).  *)

\* World rectangles <<x, y, w, h>> reported to the cache.
CacheRects == {<<0, 0, 12, 4>>, <<24, 12, 12, 4>>}

Record(history, id, args) ==
    Insert(history, id,
           [latest |-> args,
            prev   |-> IF id \in DOMAIN history THEN history[id].latest ELSE <<>>])

Call_update_node_rect(id, x, y, width, height) ==
    /\ node_rects' = update_node_rect(node_rects, id, x, y, width, height)
    /\ reported_nodes' = Record(reported_nodes, id, <<x, y, width, height>>)
    /\ op' = [name |-> "update_node_rect"]
    /\ UNCHANGED <<pin_positions, reported_pins, zoom, pan_x, pan_y, bezier_offset,
                   dragged_node_id, links, selected, model, borrows, ret>>

Call_handle_node_rect_report(id, x, y, w, h) ==
    /\ node_rects' = handle_node_rect_report(node_rects, id, x, y, w, h)
    /\ reported_nodes' = Record(reported_nodes, id, <<x, y, w, h>>)
    /\ op' = [name |-> "handle_node_rect_report"]
    /\ UNCHANGED <<pin_positions, reported_pins, zoom, pan_x, pan_y, bezier_offset,
                   dragged_node_id, links, selected, model, borrows, ret>>

Call_handle_pin_report(pin_id, node_id, pin_type, rel_x, rel_y) ==
    /\ pin_positions' = handle_pin_report(pin_positions, pin_id, node_id, pin_type, rel_x, rel_y)
    /\ reported_pins' = Record(reported_pins, pin_id, <<node_id, pin_type, rel_x, rel_y>>)
    /\ op' = [name |-> "handle_pin_report"]
    /\ UNCHANGED <<node_rects, reported_nodes, zoom, pan_x, pan_y, bezier_offset,
                   dragged_node_id, links, selected, model, borrows, ret>>

NextCache ==
    \/ \E n \in NodeIds, r \in CacheRects : Call_update_node_rect(n, r[1], r[2], r[3], r[4])
    \/ \E n \in NodeIds, r \in CacheRects :
            Call_handle_node_rect_report(n, r[1], r[2], r[3], r[4])
    \/ \E p \in PinIds, i \in PinInputs : Call_handle_pin_report(p, i[1], i[2], i[3], i[4])

SpecCache == Init /\ [][NextCache]_vars

-----------------------------------------------------------------------------
(* C4 *)

\* C4: after any sequence of node-rectangle and pin reports the cache holds
\* exactly one node entry per reported node id and one pin entry per reported
\* pin id, each with the values of the latest report for the id.  The ids
\* reported only grow, so no report removes an entry, and however often an
\* id is reported it has one entry.
C4_UpsertByLatestReport ==
    /\ DOMAIN node_rects = DOMAIN reported_nodes
    /\ Cardinality(DOMAIN node_rects) = Cardinality(DOMAIN reported_nodes)
    /\ \A id \in DOMAIN reported_nodes :
          LET a == reported_nodes[id].latest
          IN  node_rects[id] = [id |-> id, x |-> a[1], y |-> a[2], width |-> a[3], height |-> a[4]]
    /\ DOMAIN pin_positions = DOMAIN reported_pins
    /\ Cardinality(DOMAIN pin_positions) = Cardinality(DOMAIN reported_pins)
    /\ \A id \in DOMAIN reported_pins :
          LET a == reported_pins[id].latest
          IN  pin_positions[id] = [node_id |-> a[1], pin_type |-> a[2], rel_x |-> a[3], rel_y |-> a[4]]

\* A node and a pin have each been reported at least twice, the last time
\* with other values than the time before; the cache holds the last values,
\* in one entry each.
C4_Witness ==
    /\ Cardinality(DOMAIN node_rects) = 1
    /\ Cardinality(DOMAIN pin_positions) = 1
    /\ \E id \in DOMAIN reported_nodes :
          /\ reported_nodes[id].prev # <<>>
          /\ reported_nodes[id].prev # reported_nodes[id].latest
          /\ node_rects[id].x = reported_nodes[id].latest[1]
    /\ \E id \in DOMAIN reported_pins :
          /\ reported_pins[id].prev # <<>>
          /\ reported_pins[id].prev # reported_pins[id].latest
          /\ pin_positions[id].node_id = reported_pins[id].latest[1]

-----------------------------------------------------------------------------
(* C5 *)

\* C5: a viewport update (set_viewport or set_zoom) changes only the zoom
\* and the pan: the node rectangles and pin entries of the cache, the
\* registered links, the dragged-node id and the bezier offset stay.
C5_ViewportUpdateFrame ==
    [][op'.name \in {"set_viewport", "set_zoom"}
        => UNCHANGED <<node_rects, pin_positions, links, dragged_node_id, bezier_offset>>]_vars

\* set_viewport has just changed zoom and pan of a controller that holds a
\* node rectangle (still as it was stored), a pin, a link and a dragged node.
C5_Witness ==
    /\ op.name = "set_viewport"
    /\ zoom = 2 /\ pan_x = 4 /\ pan_y = 2
    /\ \E n \in DOMAIN node_rects : node_rects[n].x = 24 /\ node_rects[n].width = 12
    /\ DOMAIN pin_positions # {}
    /\ DOMAIN links # {}
    /\ dragged_node_id # 0

-----------------------------------------------------------------------------
(* selection.rs: SelectionManager.  The HashSet<i32> is a set of ids; the   *)
(* operators give the set after the call, the actions of SpecSel apply them *)
(* to `selected` and record the call and the selection before it in `op`.   *)

MaxSel == 3
SelIds == 1..MaxSel

\* The id sequences handed to replace_selection: up to two ids, repeats allowed.
IdSeqs == {<<>>} \cup {<<a>> : a \in SelIds} \cup {<<a, b>> : a, b \in SelIds}

\* handle_interaction gone wrong: the plain click does not clear.
handle_interaction_no_clear(sel, id, shift_held) ==
    IF shift_held
    THEN IF id \in sel THEN sel \ {id} ELSE sel \cup {id}
    ELSE sel \cup {id}

\* handle_interaction gone wrong: the shift click only ever adds.
handle_interaction_shift_adds(sel, id, shift_held) ==
    IF shift_held
    THEN sel \cup {id}
    ELSE IF Cardinality(sel) = 1 /\ id \in sel THEN sel
    ELSE {id}

handle_interaction(sel, id, shift_held) ==
    IF shift_held
    THEN IF id \in sel THEN sel \ {id} ELSE sel \cup {id}
    ELSE IF Cardinality(sel) = 1 /\ id \in sel THEN sel
    ELSE {} \cup {id}

clear(sel) == {}

replace_selection(sel, ids) == {} \cup Range(ids)

contains(sel, id) == id \in sel

len(sel) == Cardinality(sel)

is_empty(sel) == sel = {}

SelQuiet == UNCHANGED <<ctrl_vars, model, borrows, reported_nodes, reported_pins>>

Call_handle_interaction(id, shift_held) ==
    /\ selected' = handle_interaction(selected, id, shift_held)
    /\ op' = [name |-> "handle_interaction", id |-> id, shift_held |-> shift_held,
              before |-> selected]
    /\ ret' = 0
    /\ SelQuiet

Call_clear ==
    /\ selected' = clear(selected)
    /\ op' = [name |-> "clear", before |-> selected]
    /\ ret' = 0
    /\ SelQuiet

Call_replace_selection(ids) ==
    /\ selected' = replace_selection(selected, ids)
    /\ op' = [name |-> "replace_selection", ids |-> ids, before |-> selected]
    /\ ret' = 0
    /\ SelQuiet

Call_contains(id) ==
    /\ ret' = contains(selected, id)
    /\ op' = [name |-> "contains", id |-> id, before |-> selected]
    /\ UNCHANGED selected
    /\ SelQuiet

Call_len ==
    /\ ret' = <<len(selected), is_empty(selected)>>
    /\ op' = [name |-> "len", before |-> selected]
    /\ UNCHANGED selected
    /\ SelQuiet

NextSel ==
    \/ \E id \in SelIds, shift_held \in BOOLEAN : Call_handle_interaction(id, shift_held)
    \/ Call_clear
    \/ \E ids \in IdSeqs : Call_replace_selection(ids)
    \/ \E id \in SelIds : Call_contains(id)
    \/ Call_len

SpecSel == Init /\ [][NextSel]_vars

-----------------------------------------------------------------------------
(* C6 *)

\* C6: handle_interaction(id, false) leaves the selection exactly {id},
\* whatever was selected before; when the selection was already exactly
\* {id} the call changes nothing.
C6_PlainClickSelectsOnly ==
    [][op'.name = "handle_interaction" /\ ~op'.shift_held
        => /\ selected' = {op'.id}
           /\ selected = {op'.id} => UNCHANGED selected]_vars

\* A plain click on an id has just collapsed a selection of several ids,
\* among them other ids, to that id alone.
C6_Witness ==
    /\ op.name = "handle_interaction" /\ ~op.shift_held
    /\ Cardinality(op.before) >= 2
    /\ op.before \ {op.id} # {}
    /\ selected = {op.id}

-----------------------------------------------------------------------------
(* C7 *)

\* C7: handle_interaction(id, true) changes the membership of id and of no
\* other id: id is selected after the call exactly when it was not before.
\* A second such call restores the selection there was before the first;
\* from the empty selection the first gives {id} and the second the empty
\* selection.
C7_ShiftClickToggles ==
    [][op'.name = "handle_interaction" /\ op'.shift_held
        => /\ selected' \ {op'.id} = selected \ {op'.id}
           /\ op'.id \in selected' <=> op'.id \notin selected
           /\ handle_interaction(selected', op'.id, TRUE) = selected
           /\ selected = {} => /\ selected' = {op'.id}
                               /\ handle_interaction(selected', op'.id, TRUE) = {}]_vars

\* A shift click on the one selected id has just emptied the selection.
C7_Witness ==
    /\ op.name = "handle_interaction" /\ op.shift_held
    /\ op.before = {op.id}
    /\ selected = {}

-----------------------------------------------------------------------------
(* SpecHit: the hit-test primitives of hit_test.rs applied to pin and link  *)
(* geometries given by the caller.  `op` holds the call with its arguments  *)
(* and whether it has been made, `ret` what it returned.                     *)

MaxHitPins == 2
MaxHitLinks == 2

HitIds == {1, 2, 3}

\* (56, 58) is at distance 10 of (50, 50), as (60, 50) is.
HitPinPoints == {<<50, 50>>, <<60, 50>>, <<56, 58>>}

HitPinValues == {[id |-> i, x |-> p[1], y |-> p[2]] : i \in HitIds, p \in HitPinPoints}

SeqsUpTo(S, n) == UNION {[1..k -> S] : k \in 0..n}

HitPinSeqs == SeqsUpTo(HitPinValues, MaxHitPins)

HitMice == {<<50, 50>>, <<60, 50>>, <<61, 50>>, <<56, 58>>}

HitPinRadii == {0, 5, 10, -10}

\* Two level links six apart and a rising one, as <<start_x, start_y, end_x, end_y>>.
HitCurves == {<<0, 50, 100, 50>>, <<0, 56, 100, 56>>, <<0, 50, 100, 70>>}

HitLinkValues ==
    {[id |-> i, start_x |-> c[1], start_y |-> c[2], end_x |-> c[3], end_y |-> c[4]] :
        i \in {1, 2}, c \in HitCurves}

HitLinkSeqs == SeqsUpTo(HitLinkValues, MaxHitLinks)

\* On the first level link, midway between the two, at 10 and 4 of them, far off.
HitLinkMice == {<<50, 50>>, <<50, 53>>, <<50, 60>>, <<50, 90>>}

HitHovers == {0, 10}

HitZooms == {1, 2}

HitQuiet == UNCHANGED <<ctrl_vars, selected, model, borrows, reported_nodes, reported_pins>>

\* The calls to make: the arguments are drawn at the start, the call is made
\* in the one step that follows.
FindPinCalls ==
    {[name |-> "find_pin_at", done |-> FALSE, mouse_x |-> m[1], mouse_y |-> m[2],
      pins |-> pins, hit_radius |-> r] :
        m \in HitMice, pins \in HitPinSeqs, r \in HitPinRadii}

FindLinkCalls ==
    {[name |-> "find_link_at", done |-> FALSE, mouse_x |-> m[1], mouse_y |-> m[2],
      links |-> ls, hover_distance |-> h[1], zoom |-> h[2],
      bezier_min_offset |-> h[3], hit_samples |-> h[4]] :
        m \in HitLinkMice, ls \in HitLinkSeqs,
        h \in HitHovers \X HitZooms \X MinOffsets \X HitSamples}

InitHit ==
    /\ InitController
    /\ selected = {}
    /\ model = <<>>
    /\ reported_nodes = EmptyMap
    /\ reported_pins = EmptyMap
    /\ borrows = Unborrowed
    /\ op \in FindPinCalls \cup FindLinkCalls
    /\ ret = 0

Call_find_pin_at ==
    /\ op.name = "find_pin_at" /\ ~op.done
    /\ ret' = find_pin_at(op.mouse_x, op.mouse_y, op.pins, op.hit_radius)
    /\ op' = [op EXCEPT !.done = TRUE]
    /\ HitQuiet

Call_find_link_at ==
    /\ op.name = "find_link_at" /\ ~op.done
    /\ ret' = find_link_at(op.mouse_x, op.mouse_y, op.links, op.hover_distance, op.zoom,
                           op.bezier_min_offset, op.hit_samples)
    /\ op' = [op EXCEPT !.done = TRUE]
    /\ HitQuiet

NextHit ==
    \/ Call_find_pin_at
    \/ Call_find_link_at

SpecHit == InitHit /\ [][NextHit]_vars

-----------------------------------------------------------------------------
(* C8 *)

\* The squared distance of the i-th pin of the call in `op` to its mouse point.
PinDistSq(i) ==
    (op.mouse_x - op.pins[i].x) * (op.mouse_x - op.pins[i].x)
  + (op.mouse_y - op.pins[i].y) * (op.mouse_y - op.pins[i].y)

\* The positions of the pins of the call in `op` that lie within its radius,
\* the radius itself included.
PinsWithin == {i \in 1..Len(op.pins) : PinDistSq(i) <= op.hit_radius * op.hit_radius}

-----------------------------------------------------------------------------
(* C9 *)

\* The mouse point of the call in `op` is the position of its i-th pin.
MouseOnPin(i) == op.mouse_x = op.pins[i].x /\ op.mouse_y = op.pins[i].y

\* The mouse point of the call in `op` is level with its i-th pin and more
\* than the radius to its right: (px + r + e, py) with e > 0.
MouseBeyondPin(i) ==
    /\ op.mouse_y = op.pins[i].y
    /\ op.mouse_x > op.pins[i].x + op.hit_radius

-----------------------------------------------------------------------------
(* C10 *)

\* The squared distance find_link_at measures for the i-th link of the call
\* in `op`.
OpLinkDistSq(i) ==
    LinkDistSq(op.mouse_x, op.mouse_y, op.links[i], op.zoom, op.bezier_min_offset,
               op.hit_samples)

\* The positions of the links of the call in `op` whose distance is
\* strictly less than hover_distance.
LinksWithinHover ==
    {i \in 1..Len(op.links) :
        MixedLt(OpLinkDistSq(i), HoverSq(op.hover_distance, op.hit_samples))}

\* C10: find_link_at returns the id of a link whose sampled curve distance
\* to the point is strictly less than hover_distance and is the smallest
\* among all links offered, the first such link in iteration order when
\* several are at that distance; it returns -1 when no link is strictly
\* closer than hover_distance.
C10_ClosestLinkWithinHover ==
    op.name = "find_link_at" /\ op.done =>
        IF LinksWithinHover = {} THEN ret = NoLink
        ELSE \E i \in LinksWithinHover :
                /\ \A j \in 1..Len(op.links) : ~MixedLt(OpLinkDistSq(j), OpLinkDistSq(i))
                /\ \A j \in 1..(i - 1) : MixedLt(OpLinkDistSq(i), OpLinkDistSq(j))
                /\ ret = op.links[i].id

\* Two links with different ids are equally close to the point and closer
\* than hover_distance, and the id of the first is returned.
C10_Witness ==
    /\ op.name = "find_link_at" /\ op.done
    /\ Len(op.links) = 2
    /\ LinksWithinHover = {1, 2}
    /\ ~MixedLt(OpLinkDistSq(1), OpLinkDistSq(2))
    /\ ~MixedLt(OpLinkDistSq(2), OpLinkDistSq(1))
    /\ op.links[1].id # op.links[2].id
    /\ op.links[1].start_y # op.links[2].start_y
    /\ ret = op.links[1].id

-----------------------------------------------------------------------------
(* SpecBox: one box selection, nodes_in_selection_box and                   *)
(* links_in_selection_box of hit_test.rs applied to the same box.  `op`     *)
(* holds the box, the nodes and the links and which of the two calls has    *)
(* been made, `ret` what each returned.                                     *)

MaxBoxItems == 2

\* The box spans 10..30 both ways; the second box is the point (10, 10).
SelectionBoxes == {<<10, 10, 20, 20>>, <<10, 10, 0, 0>>}

\* Rectangles <<x, y, width, height>>: touching the right edge of the box,
\* touching its top edge, overlapping it by one, and containing (10, 10).
BoxNodeRects == {<<30, 15, 8, 8>>, <<15, 2, 8, 8>>, <<29, 15, 8, 8>>, <<5, 5, 10, 10>>}

BoxNodeValues ==
    {[id |-> i, x |-> r[1], y |-> r[2], width |-> r[3], height |-> r[4]] :
        i \in {1, 2}, r \in BoxNodeRects}

\* Links <<start_x, start_y, end_x, end_y>>: starting on the right edge,
\* ending on the corner (10, 10), and passing through the box with both
\* ends outside.
BoxLinkEnds == {<<30, 20, 50, 50>>, <<0, 0, 10, 10>>, <<0, 20, 40, 20>>}

BoxLinkValues ==
    {[id |-> i, start_x |-> c[1], start_y |-> c[2], end_x |-> c[3], end_y |-> c[4]] :
        i \in {1, 2}, c \in BoxLinkEnds}

BoxCalls ==
    {[name |-> "selection_box", nodes_done |-> FALSE, links_done |-> FALSE,
      sel_x |-> b[1], sel_y |-> b[2], sel_width |-> b[3], sel_height |-> b[4],
      nodes |-> ns, links |-> ls] :
        b \in SelectionBoxes, ns \in SeqsUpTo(BoxNodeValues, MaxBoxItems),
        ls \in SeqsUpTo(BoxLinkValues, MaxBoxItems)}

InitBox ==
    /\ InitController
    /\ selected = {}
    /\ model = <<>>
    /\ reported_nodes = EmptyMap
    /\ reported_pins = EmptyMap
    /\ borrows = Unborrowed
    /\ op \in BoxCalls
    /\ ret = [nodes |-> <<>>, links |-> <<>>]

Call_nodes_in_selection_box ==
    /\ ~op.nodes_done
    /\ ret' = [ret EXCEPT !.nodes = nodes_in_selection_box(op.sel_x, op.sel_y, op.sel_width,
                                                           op.sel_height, op.nodes)]
    /\ op' = [op EXCEPT !.nodes_done = TRUE]
    /\ HitQuiet

Call_links_in_selection_box ==
    /\ ~op.links_done
    /\ ret' = [ret EXCEPT !.links = links_in_selection_box(op.sel_x, op.sel_y, op.sel_width,
                                                           op.sel_height, op.links)]
    /\ op' = [op EXCEPT !.links_done = TRUE]
    /\ HitQuiet

NextBox ==
    \/ Call_nodes_in_selection_box
    \/ Call_links_in_selection_box

SpecBox == InitBox /\ [][NextBox]_vars

-----------------------------------------------------------------------------
(* C11 *)

\* The node lies outside the box of `op` or shares no more than an edge or a
\* corner with it: on one axis the two extents meet in at most a point.
NodeOnlyTouches(n) ==
    \/ n.x + n.width <= op.sel_x
    \/ n.x >= op.sel_x + op.sel_width
    \/ n.y + n.height <= op.sel_y
    \/ n.y >= op.sel_y + op.sel_height

\* The point lies in the box of `op`, its boundary included.
PointInClosedBox(px, py) ==
    /\ op.sel_x <= px /\ px <= op.sel_x + op.sel_width
    /\ op.sel_y <= py /\ py <= op.sel_y + op.sel_height

\* The ids, in order, of the items of s at the positions in keep.
IdsAt(s, keep) ==
    Collect([k \in 1..Len(s) |-> IF k \in keep THEN <<s[k].id>> ELSE <<>>], 1)

\* C11: nodes_in_selection_box returns the nodes whose rectangle overlaps
\* the box and leaves out a node whose rectangle only touches it (shares an
\* edge, no overlap); links_in_selection_box returns the links whose start
\* or end point lies in the box, a point exactly on the boundary included.
C11_BoxBoundaryNodesOpenLinksClosed ==
    /\ op.nodes_done =>
          ret.nodes = IdsAt(op.nodes,
                            {k \in 1..Len(op.nodes) : ~NodeOnlyTouches(op.nodes[k])})
    /\ op.links_done =>
          ret.links = IdsAt(op.links,
                            {k \in 1..Len(op.links) :
                                \/ PointInClosedBox(op.links[k].start_x, op.links[k].start_y)
                                \/ PointInClosedBox(op.links[k].end_x, op.links[k].end_y)})

\* Both calls are made on a box of positive size: the first node starts
\* exactly where the box ends and is left out while the second overlaps and
\* is returned; the one link starts exactly on the right edge of the box,
\* ends outside, and is returned.
C11_Witness ==
    /\ op.nodes_done /\ op.links_done
    /\ op.sel_width > 0
    /\ Len(op.nodes) = 2 /\ Len(op.links) = 1
    /\ op.nodes[1].x = op.sel_x + op.sel_width
    /\ op.nodes[1].y > op.sel_y /\ op.nodes[1].y < op.sel_y + op.sel_height
    /\ op.nodes[1].id = 1 /\ op.nodes[2].id = 2
    /\ ret.nodes = <<2>>
    /\ op.links[1].start_x = op.sel_x + op.sel_width
    /\ ~PointInClosedBox(op.links[1].end_x, op.links[1].end_y)
    /\ ret.links = <<op.links[1].id>>

-----------------------------------------------------------------------------
(* src/src/graph.rs: the link validation framework and GraphLogic, as       *)
(* operators on the pin map of the cache and the slice of existing links.   *)
(* A link is [id, start_pin_id, end_pin_id]; a validator is [kind,          *)
(* output_type] with kind "Basic" or "NoDuplicates".                        *)

\* ValidationResult::Valid, and ValidationResult::Invalid(error); pin_id is
\* the payload of PinNotFound and 0 for the other errors.
Valid == [valid |-> TRUE, error |-> "", pin_id |-> 0]

Invalid(error, pin_id) == [valid |-> FALSE, error |-> error, pin_id |-> pin_id]

is_valid(result) == result.valid

\* BasicLinkValidator::validate gone wrong: the directions are not compared.
BasicLinkValidator_validate_any_direction(output_type, start_pin, end_pin, pins) ==
    IF start_pin = end_pin THEN Invalid("SamePin", 0)
    ELSE IF start_pin \notin DOMAIN pins THEN Invalid("PinNotFound", start_pin)
    ELSE IF end_pin \notin DOMAIN pins THEN Invalid("PinNotFound", end_pin)
    ELSE IF pins[start_pin].node_id = pins[end_pin].node_id THEN Invalid("SameNode", 0)
    ELSE Valid

\* BasicLinkValidator::validate gone wrong: the nodes are not compared.
BasicLinkValidator_validate_same_node_allowed(output_type, start_pin, end_pin, pins) ==
    IF start_pin = end_pin THEN Invalid("SamePin", 0)
    ELSE IF start_pin \notin DOMAIN pins THEN Invalid("PinNotFound", start_pin)
    ELSE IF end_pin \notin DOMAIN pins THEN Invalid("PinNotFound", end_pin)
    ELSE LET start_is_output == pins[start_pin].pin_type = output_type
             end_is_output   == pins[end_pin].pin_type = output_type
         IN  IF start_is_output = end_is_output THEN Invalid("IncompatibleDirection", 0)
             ELSE Valid

BasicLinkValidator_validate(output_type, start_pin, end_pin, pins) ==
    IF start_pin = end_pin THEN Invalid("SamePin", 0)
    ELSE IF start_pin \notin DOMAIN pins THEN Invalid("PinNotFound", start_pin)
    ELSE IF end_pin \notin DOMAIN pins THEN Invalid("PinNotFound", end_pin)
    ELSE IF pins[start_pin].node_id = pins[end_pin].node_id THEN Invalid("SameNode", 0)
    ELSE LET start_is_output == pins[start_pin].pin_type = output_type
             end_is_output   == pins[end_pin].pin_type = output_type
         IN  IF start_is_output = end_is_output THEN Invalid("IncompatibleDirection", 0)
             ELSE Valid

duplicate_link_exists(start_pin, end_pin, ls) ==
    \E i \in 1..Len(ls) : ls[i].start_pin_id = start_pin /\ ls[i].end_pin_id = end_pin

NoDuplicatesValidator_validate(start_pin, end_pin, ls) ==
    IF duplicate_link_exists(start_pin, end_pin, ls) THEN Invalid("DuplicateLink", 0)
    ELSE Valid

\* v.validate(start_pin, end_pin, cache, links) for a boxed validator v.
Validate(v, start_pin, end_pin, pins, ls) ==
    IF v.kind = "Basic" THEN BasicLinkValidator_validate(v.output_type, start_pin, end_pin, pins)
    ELSE NoDuplicatesValidator_validate(start_pin, end_pin, ls)

RECURSIVE CompositeFrom(_, _, _, _, _, _, _)

\* The loop of CompositeValidator::validate gone wrong: every validator is
\* run and the last failure is the one returned.
CompositeFrom_last_failure_wins(validators, start_pin, end_pin, pins, ls, i, consulted) ==
    IF i > Len(validators) THEN [result |-> Valid, consulted |-> consulted]
    ELSE LET result == Validate(validators[i], start_pin, end_pin, pins, ls)
             rest   == CompositeFrom(validators, start_pin, end_pin, pins, ls, i + 1,
                                     Append(consulted, i))
         IN  IF is_valid(rest.result) THEN [result |-> result, consulted |-> rest.consulted]
             ELSE rest

\* The for loop of CompositeValidator::validate from validator i on.  The
\* value is the result returned together with the positions of the
\* validators whose validate was called, in the order of the calls.
CompositeFrom(validators, start_pin, end_pin, pins, ls, i, consulted) ==
    IF i > Len(validators) THEN [result |-> Valid, consulted |-> consulted]
    ELSE LET result == Validate(validators[i], start_pin, end_pin, pins, ls)
         IN  IF ~is_valid(result)
             THEN [result |-> result, consulted |-> Append(consulted, i)]
             ELSE CompositeFrom(validators, start_pin, end_pin, pins, ls, i + 1,
                                Append(consulted, i))

CompositeValidator_validate(validators, start_pin, end_pin, pins, ls) ==
    CompositeFrom(validators, start_pin, end_pin, pins, ls, 1, <<>>)

\* Option<(i32, i32)>::Some((first, second)).
Some(first, second) == <<"Some", first, second>>

\* normalize_link_direction gone wrong: pin_b has to be in the cache too.
normalize_link_direction_needs_both(pin_a, pin_b, pins, output_type) ==
    IF pin_a \notin DOMAIN pins \/ pin_b \notin DOMAIN pins THEN None
    ELSE IF pins[pin_a].pin_type = output_type THEN Some(pin_a, pin_b)
    ELSE Some(pin_b, pin_a)

normalize_link_direction(pin_a, pin_b, pins, output_type) ==
    IF pin_a \notin DOMAIN pins THEN None
    ELSE IF pins[pin_a].pin_type = output_type THEN Some(pin_a, pin_b)
    ELSE Some(pin_b, pin_a)

-----------------------------------------------------------------------------
(* SpecGraph: one call of a validator or of normalize_link_direction on a   *)
(* cache whose pins are drawn at the start.  `op` holds the call and        *)
(* whether it has been made, `ret` what it returned.                        *)

MaxValidators == 2

GraphPinTypes == {1, 2}

OutputType == 2

\* The pin maps of the cache: each pin absent, or on one of the nodes with
\* one of the types.
GraphPinMaps ==
    UNION {[ids -> [node_id : NodeIds, pin_type : GraphPinTypes, rel_x : {0}, rel_y : {0}]] :
              ids \in SUBSET PinIds}

\* The pin ids asked about: the ids the cache may hold and one it never holds.
GraphPinArgs == PinIds \cup {MaxPin + 1}

\* The slices of existing links: none, or one link.
ExistingLinks ==
    {<<>>} \cup {<<[id |-> 1, start_pin_id |-> a, end_pin_id |-> b]>> : a, b \in PinIds}

Validators == {[kind |-> "Basic", output_type |-> OutputType],
               [kind |-> "NoDuplicates", output_type |-> 0]}

GraphCalls ==
    {[name |-> "CompositeValidator::validate", done |-> FALSE, validators |-> vs,
      start_pin |-> a, end_pin |-> b, links |-> ls] :
        vs \in SeqsUpTo(Validators, MaxValidators), a \in GraphPinArgs, b \in GraphPinArgs,
        ls \in ExistingLinks}
    \cup
    {[name |-> "BasicLinkValidator::validate", done |-> FALSE, output_type |-> t,
      start_pin |-> a, end_pin |-> b] :
        t \in GraphPinTypes, a \in GraphPinArgs, b \in GraphPinArgs}
    \cup
    {[name |-> "normalize_link_direction", done |-> FALSE, output_type |-> t,
      pin_a |-> a, pin_b |-> b] :
        t \in GraphPinTypes, a \in GraphPinArgs, b \in GraphPinArgs}

InitGraph ==
    /\ node_rects = EmptyMap
    /\ pin_positions \in GraphPinMaps
    /\ zoom = 1 /\ pan_x = 0 /\ pan_y = 0
    /\ bezier_offset = DefaultBezierOffset
    /\ dragged_node_id = 0
    /\ links = EmptyMap
    /\ selected = {}
    /\ model = <<>>
    /\ reported_nodes = EmptyMap
    /\ reported_pins = EmptyMap
    /\ borrows = Unborrowed
    /\ op \in GraphCalls
    /\ ret = 0

Call_CompositeValidator_validate ==
    /\ op.name = "CompositeValidator::validate" /\ ~op.done
    /\ ret' = CompositeValidator_validate(op.validators, op.start_pin, op.end_pin,
                                          pin_positions, op.links)
    /\ op' = [op EXCEPT !.done = TRUE]
    /\ HitQuiet

Call_BasicLinkValidator_validate ==
    /\ op.name = "BasicLinkValidator::validate" /\ ~op.done
    /\ ret' = BasicLinkValidator_validate(op.output_type, op.start_pin, op.end_pin,
                                          pin_positions)
    /\ op' = [op EXCEPT !.done = TRUE]
    /\ HitQuiet

Call_normalize_link_direction ==
    /\ op.name = "normalize_link_direction" /\ ~op.done
    /\ ret' = normalize_link_direction(op.pin_a, op.pin_b, pin_positions, op.output_type)
    /\ op' = [op EXCEPT !.done = TRUE]
    /\ HitQuiet

NextGraph ==
    \/ Call_CompositeValidator_validate
    \/ Call_BasicLinkValidator_validate
    \/ Call_normalize_link_direction

SpecGraph == InitGraph /\ [][NextGraph]_vars

-----------------------------------------------------------------------------
(* C12 *)

\* What the i-th validator of the composite call in `op` says on its own.
OwnResult(i) == Validate(op.validators[i], op.start_pin, op.end_pin, pin_positions, op.links)

\* The positions of the validators of the composite call in `op` that say
\* Invalid.
Failing == {i \in 1..Len(op.validators) : ~is_valid(OwnResult(i))}

\* C12: CompositeValidator returns the result of the first validator, in
\* the order they were added, that returns Invalid, and consults no
\* validator after it; it returns Valid only when every validator returns
\* Valid.  So [Basic, NoDuplicates] on a same-pin link reports SamePin even
\* when an identical link exists.
C12_CompositeFirstFailure ==
    op.name = "CompositeValidator::validate" /\ op.done =>
        /\ IF Failing = {}
           THEN /\ ret.result = Valid
                /\ ret.consulted = [i \in 1..Len(op.validators) |-> i]
           ELSE \E f \in Failing :
                   /\ \A g \in Failing : f <= g
                   /\ ret.result = OwnResult(f)
                   /\ ret.consulted = [i \in 1..f |-> i]
        /\ is_valid(ret.result) <=> Failing = {}
        /\ ( /\ Len(op.validators) = 2
             /\ op.validators[1].kind = "Basic" /\ op.validators[2].kind = "NoDuplicates"
             /\ op.start_pin = op.end_pin )
           => ret.result = Invalid("SamePin", 0)

\* [Basic, NoDuplicates] has been asked about a link from a pin to itself
\* while such a link exists: both validators say Invalid on their own, the
\* answer is SamePin and the second validator was not consulted.
C12_Witness ==
    /\ op.name = "CompositeValidator::validate" /\ op.done
    /\ Len(op.validators) = 2
    /\ op.validators[1].kind = "Basic" /\ op.validators[2].kind = "NoDuplicates"
    /\ op.start_pin = op.end_pin
    /\ duplicate_link_exists(op.start_pin, op.end_pin, op.links)
    /\ Failing = {1, 2}
    /\ ret.result = Invalid("SamePin", 0)
    /\ ret.consulted = <<1>>

-----------------------------------------------------------------------------
(* C13 *)

\* The pin asked about is in the cache.
Cached(p) == p \in DOMAIN pin_positions

\* C13: BasicLinkValidator returns Valid exactly when the two pin ids
\* differ, both pins are in the cache, they belong to different nodes and
\* exactly one of them has the configured output type; in every other case
\* it returns Invalid with SamePin, PinNotFound, SameNode or
\* IncompatibleDirection as the reason.
C13_BasicValidatorValidIff ==
    op.name = "BasicLinkValidator::validate" /\ op.done =>
        LET a == op.start_pin
            b == op.end_pin
            ok == /\ a # b
                  /\ Cached(a) /\ Cached(b)
                  /\ pin_positions[a].node_id # pin_positions[b].node_id
                  /\ (pin_positions[a].pin_type = op.output_type)
                       # (pin_positions[b].pin_type = op.output_type)
        IN  /\ ret = Valid <=> ok
            /\ ~ok => /\ ~ret.valid
                       /\ ret.error \in {"SamePin", "PinNotFound", "SameNode",
                                          "IncompatibleDirection"}
            /\ a = b => ret = Invalid("SamePin", 0)
            /\ a # b /\ ~Cached(a) => ret = Invalid("PinNotFound", a)
            /\ a # b /\ Cached(a) /\ ~Cached(b) => ret = Invalid("PinNotFound", b)

\* Two different cached pins on the same node, one of the output type and
\* one not, have been rejected with SameNode.
C13_Witness ==
    /\ op.name = "BasicLinkValidator::validate" /\ op.done
    /\ op.start_pin # op.end_pin
    /\ Cached(op.start_pin) /\ Cached(op.end_pin)
    /\ pin_positions[op.start_pin].node_id = pin_positions[op.end_pin].node_id
    /\ pin_positions[op.start_pin].pin_type = op.output_type
    /\ pin_positions[op.end_pin].pin_type # op.output_type
    /\ ret = Invalid("SameNode", 0)

-----------------------------------------------------------------------------
(* C14 *)

-----------------------------------------------------------------------------
(* SpecDrag: GraphLogic::commit_drag of graph.rs on a node model.  `model`  *)
(* holds the rows [id, x, y] of the VecModel, `selected` the selection;     *)
(* `op` holds the delta and the rows before the call.                       *)

MaxRows == 2

RECURSIVE CommitDragFrom(_, _, _, _, _)

\* The loop of commit_drag gone wrong: the selection is not asked.
CommitDragFrom_moves_every_row(rows, sel, delta_x, delta_y, i) ==
    IF i > Len(rows) THEN rows
    ELSE LET node == [rows[i] EXCEPT !.x = @ + delta_x, !.y = @ + delta_y]
         IN  CommitDragFrom([rows EXCEPT ![i] = node], sel, delta_x, delta_y, i + 1)

\* The for loop of commit_drag from row i on: row_data(i), set_x, set_y and
\* set_row_data(i, node) for a row whose id is selected.
CommitDragFrom(rows, sel, delta_x, delta_y, i) ==
    IF i > Len(rows) THEN rows
    ELSE IF contains(sel, rows[i].id)
         THEN LET node == [rows[i] EXCEPT !.x = @ + delta_x, !.y = @ + delta_y]
              IN  CommitDragFrom([rows EXCEPT ![i] = node], sel, delta_x, delta_y, i + 1)
         ELSE CommitDragFrom(rows, sel, delta_x, delta_y, i + 1)

commit_drag(rows, sel, delta_x, delta_y) == CommitDragFrom(rows, sel, delta_x, delta_y, 1)

DragRowValues == {[id |-> i, x |-> p, y |-> p] : i \in SelIds, p \in {0, 100}}

DragDeltas == {<<10, 20>>, <<-5, 0>>}

InitDrag ==
    /\ InitController
    /\ selected \in SUBSET SelIds
    /\ model \in SeqsUpTo(DragRowValues, MaxRows)
    /\ reported_nodes = EmptyMap
    /\ reported_pins = EmptyMap
    /\ borrows = Unborrowed
    /\ \E d \in DragDeltas :
          op = [name |-> "commit_drag", done |-> FALSE, delta_x |-> d[1], delta_y |-> d[2],
                before |-> model]
    /\ ret = 0

Call_commit_drag ==
    /\ op.name = "commit_drag" /\ ~op.done
    /\ model' = commit_drag(model, selected, op.delta_x, op.delta_y)
    /\ op' = [op EXCEPT !.done = TRUE]
    /\ UNCHANGED <<ctrl_vars, selected, borrows, reported_nodes, reported_pins, ret>>

NextDrag == Call_commit_drag

SpecDrag == InitDrag /\ [][NextDrag]_vars

-----------------------------------------------------------------------------
(* C15 *)

\* C15: commit_drag adds (dx, dy) to the position of every row of the node
\* model whose id is in the selection and leaves every other row, the
\* number of rows and their order unchanged; with an empty selection the
\* model is unchanged.
C15_CommitDragMovesSelectedRows ==
    op.name = "commit_drag" /\ op.done =>
        /\ Len(model) = Len(op.before)
        /\ \A i \in 1..Len(model) :
              /\ model[i].id = op.before[i].id
              /\ IF op.before[i].id \in selected
                 THEN /\ model[i].x = op.before[i].x + op.delta_x
                      /\ model[i].y = op.before[i].y + op.delta_y
                 ELSE model[i] = op.before[i]
        /\ selected = {} => model = op.before

\* Of two rows the first is selected and has moved by the delta, the second
\* is not selected and has stayed.
C15_Witness ==
    /\ op.name = "commit_drag" /\ op.done
    /\ Len(model) = 2
    /\ model[1].id \in selected /\ model[2].id \notin selected
    /\ op.delta_x = 10 /\ op.delta_y = 20
    /\ model[1].x = op.before[1].x + 10 /\ model[1].y = op.before[1].y + 20
    /\ model[2] = op.before[2]

-----------------------------------------------------------------------------
(* SpecSync: a SelectionManager and a VecModel<i32> kept in step with       *)
(* sync_to_model and sync_from_model of selection.rs.  `model` holds the    *)
(* rows of the VecModel; nothing else writes it.                            *)

\* The orders in which a HashSet may hand out its members.
SetOrders(S) ==
    LET n == Cardinality(S)
    IN  {o \in [1..n -> S] : \A i, j \in 1..n : i # j => o[i] # o[j]}

\* while model.row_count() > 0 { model.remove(0) }
RECURSIVE Drain(_)
Drain(rows) == IF Len(rows) > 0 THEN Drain(Tail(rows)) ELSE rows

\* sync_to_model gone wrong: the rows the model had are kept.
sync_to_model_keeps_rows(sel, rows, order) == rows \o order

\* sync_to_model when the set is iterated in the order `order`: the rows of
\* the model after the call.
sync_to_model(sel, rows, order) == Drain(rows) \o order

\* sync_from_model: the selection after the call.
sync_from_model(sel, rows) == {} \cup {rows[i] : i \in 1..Len(rows)}

Call_sync_to_model ==
    /\ \E order \in SetOrders(selected) : model' = sync_to_model(selected, model, order)
    /\ op' = [name |-> "sync_to_model", before |-> selected, rows_before |-> model]
    /\ UNCHANGED <<ctrl_vars, selected, borrows, reported_nodes, reported_pins, ret>>

Call_sync_from_model ==
    /\ selected' = sync_from_model(selected, model)
    /\ op' = [name |-> "sync_from_model", before |-> selected, rows_before |-> model]
    /\ UNCHANGED <<ctrl_vars, model, borrows, reported_nodes, reported_pins, ret>>

NextSync ==
    \/ \E id \in SelIds, shift_held \in BOOLEAN : Call_handle_interaction(id, shift_held)
    \/ Call_sync_to_model
    \/ Call_sync_from_model

SpecSync == Init /\ [][NextSync]_vars

-----------------------------------------------------------------------------
(* C16 *)

\* C16: sync_to_model leaves the model holding exactly the selected ids,
\* each once, with every earlier row gone; sync_from_model replaces the
\* selection with the contents of the model; so sync_to_model followed by
\* sync_from_model into a SelectionManager with any selection yields the
\* original selection, whatever the order of iteration.
C16_SyncRoundTrip ==
    /\ op.name = "sync_to_model" =>
          /\ Len(model) = Cardinality(selected)
          /\ Range(model) = selected
    /\ op.name = "sync_from_model" => selected = Range(model)
    /\ \A order \in SetOrders(selected), other \in SUBSET SelIds :
          sync_from_model(other, sync_to_model(selected, model, order)) = selected

\* sync_from_model has just given a manager that held another selection the
\* two or more ids that an earlier sync_to_model wrote, each once.
C16_Witness ==
    /\ op.name = "sync_from_model"
    /\ op.before # selected
    /\ op.before # {}
    /\ Cardinality(selected) >= 2
    /\ Len(model) = Cardinality(selected)

-----------------------------------------------------------------------------
(* src/src/layout.rs: sugiyama_layout and sugiyama_layout_from_cache, up to *)
(* the call of the layering algorithm of the rust_sugiyama crate.  Node     *)
(* sizes are [id, w, h], edges are <<source, target>>; the vertices handed  *)
(* to the algorithm are [idx, w, h], the edges <<source idx, target idx>>,  *)
(* with indices from 0 as in the code.                                      *)

\* The for loop that fills id_to_idx and idx_to_id, from entry i on: the
\* ids of node_sizes in the order of their first occurrence.
RECURSIVE IdxToIdFrom(_, _, _)
IdxToIdFrom(node_sizes, i, idx_to_id) ==
    IF i > Len(node_sizes) THEN idx_to_id
    ELSE IF node_sizes[i].id \in Range(idx_to_id)
         THEN IdxToIdFrom(node_sizes, i + 1, idx_to_id)
         ELSE IdxToIdFrom(node_sizes, i + 1, Append(idx_to_id, node_sizes[i].id))

idx_to_id_of(node_sizes) == IdxToIdFrom(node_sizes, 1, <<>>)

\* id_to_idx: the index (from 0) under which an id was entered.
id_to_idx_of(node_sizes) ==
    LET ids == idx_to_id_of(node_sizes)
    IN  [id \in Range(ids) |-> (CHOOSE k \in 1..Len(ids) : ids[k] = id) - 1]

\* The vertices built from node_sizes: an entry is kept when the id stored
\* at its index is its id.
vertices_of(node_sizes, horizontal) ==
    LET id_to_idx == id_to_idx_of(node_sizes)
        idx_to_id == idx_to_id_of(node_sizes)
        F(e) == IF e.id \notin DOMAIN id_to_idx THEN <<>>
                ELSE LET idx == id_to_idx[e.id]
                     IN  IF idx_to_id[idx + 1] = e.id
                         THEN <<[idx |-> idx,
                                 w   |-> IF horizontal THEN e.h ELSE e.w,
                                 h   |-> IF horizontal THEN e.w ELSE e.h]>>
                         ELSE <<>>
    IN  Collect([k \in 1..Len(node_sizes) |-> F(node_sizes[k])], 1)

\* mapped_edges: the edges as index pairs, those with an id that is not in
\* id_to_idx skipped.
mapped_edges_of(edges, node_sizes) ==
    LET id_to_idx == id_to_idx_of(node_sizes)
        F(e) == IF e[1] \notin DOMAIN id_to_idx THEN <<>>
                ELSE IF e[2] \notin DOMAIN id_to_idx THEN <<>>
                ELSE <<(<<id_to_idx[e[1]], id_to_idx[e[2]]>>)>>
    IN  Collect([k \in 1..Len(edges) |-> F(edges[k])], 1)

\* sugiyama_layout up to rust_sugiyama::from_vertices_and_edges: whether the
\* algorithm is called, and with which vertices and edges; idx_to_id is the
\* table that translates its answer back.
sugiyama_layout(edges, node_sizes, horizontal) ==
    IF Len(node_sizes) = 0
    THEN [called |-> FALSE, vertices |-> <<>>, edges |-> <<>>, idx_to_id |-> <<>>]
    ELSE [called    |-> TRUE,
          vertices  |-> vertices_of(node_sizes, horizontal),
          edges     |-> mapped_edges_of(edges, node_sizes),
          idx_to_id |-> idx_to_id_of(node_sizes)]

\* The node pairs sugiyama_layout_from_cache gone wrong: an edge between
\* two pins of one node is kept.
node_edge_set_with_self_loops(pins, edges) ==
    {<<pins[e[1]].node_id, pins[e[2]].node_id>> :
        e \in {edges[k] : k \in {k \in 1..Len(edges) :
                                     edges[k][1] \in DOMAIN pins /\ edges[k][2] \in DOMAIN pins}}}

\* The HashSet of node pairs sugiyama_layout_from_cache collects from the
\* pin edges.
node_edge_set(pins, edges) ==
    {<<pins[e[1]].node_id, pins[e[2]].node_id>> :
        e \in {edges[k] : k \in {k \in 1..Len(edges) :
                                     /\ edges[k][1] \in DOMAIN pins
                                     /\ edges[k][2] \in DOMAIN pins
                                     /\ pins[edges[k][1]].node_id # pins[edges[k][2]].node_id}}}

\* node_sizes read from the cache, the nodes met in the order node_order.
node_sizes_of(nodes, node_order) ==
    [k \in 1..Len(node_order) |->
        [id |-> node_order[k], w |-> nodes[node_order[k]].width,
         h |-> nodes[node_order[k]].height]]

\* sugiyama_layout_from_cache: what may be handed to the algorithm, one
\* outcome for every order in which the HashSet hands out the node pairs and
\* the cache its nodes.
sugiyama_layout_from_cache(nodes, pins, edges, horizontal) ==
    {sugiyama_layout(edge_order, node_sizes_of(nodes, node_order), horizontal) :
        edge_order \in SetOrders(node_edge_set(pins, edges)), node_order \in Orders(nodes)}

-----------------------------------------------------------------------------
(* SpecLayout: one call of sugiyama_layout on node sizes and edges given by *)
(* the caller, or of sugiyama_layout_from_cache on a cache with two nodes   *)
(* that have a rectangle and five pins, one of them on a node without a     *)
(* rectangle.  `ret` holds what the call hands to the layering algorithm.   *)

MaxSizes == 2
MaxEdges == 2

LayoutSizeValues == {[id |-> i, w |-> z[1], h |-> z[2]] : i \in {1, 2}, z \in {<<100, 50>>, <<200, 80>>}}

\* Node ids in edges: 3 is in no node_sizes.
LayoutEdgeValues == {1, 2, 3} \X {1, 2, 3}

LayoutNodes ==
    update_node_rect(update_node_rect(EmptyMap, 1, 0, 0, 100, 50), 2, 0, 0, 200, 80)

\* Pins 1 and 3 are on node 1, pins 2 and 5 on node 2, pin 4 on node 3,
\* which has no rectangle.
LayoutPins ==
    handle_pin_report(handle_pin_report(handle_pin_report(handle_pin_report(handle_pin_report(
        EmptyMap, 1, 1, 2, 0, 0), 2, 2, 1, 0, 0), 3, 1, 2, 0, 0), 4, 3, 1, 0, 0), 5, 2, 1, 0, 0)

\* Pin ids in edges: 9 is not in the cache.
LayoutPinEdgeValues == {1, 2, 3, 4, 9} \X {1, 2, 3, 4, 9}

InitLayout ==
    /\ zoom = 1 /\ pan_x = 0 /\ pan_y = 0
    /\ bezier_offset = DefaultBezierOffset
    /\ dragged_node_id = 0
    /\ links = EmptyMap
    /\ selected = {}
    /\ model = <<>>
    /\ reported_nodes = EmptyMap
    /\ reported_pins = EmptyMap
    /\ borrows = Unborrowed
    /\ ret = 0
    /\ \/ /\ node_rects = EmptyMap
          /\ pin_positions = EmptyMap
          /\ \E ns \in SeqsUpTo(LayoutSizeValues, MaxSizes), es \in SeqsUpTo(LayoutEdgeValues, MaxEdges),
                hz \in BOOLEAN :
                op = [name |-> "sugiyama_layout", done |-> FALSE, edges |-> es,
                      node_sizes |-> ns, horizontal |-> hz]
       \/ /\ node_rects = LayoutNodes
          /\ pin_positions = LayoutPins
          /\ \E es \in SeqsUpTo(LayoutPinEdgeValues, MaxEdges), hz \in BOOLEAN :
                op = [name |-> "sugiyama_layout_from_cache", done |-> FALSE, edges |-> es,
                      horizontal |-> hz]

Call_sugiyama_layout ==
    /\ op.name = "sugiyama_layout" /\ ~op.done
    /\ ret' = sugiyama_layout(op.edges, op.node_sizes, op.horizontal)
    /\ op' = [op EXCEPT !.done = TRUE]
    /\ HitQuiet

Call_sugiyama_layout_from_cache ==
    /\ op.name = "sugiyama_layout_from_cache" /\ ~op.done
    /\ ret' \in sugiyama_layout_from_cache(node_rects, pin_positions, op.edges, op.horizontal)
    /\ op' = [op EXCEPT !.done = TRUE]
    /\ HitQuiet

NextLayout ==
    \/ Call_sugiyama_layout
    \/ Call_sugiyama_layout_from_cache

SpecLayout == InitLayout /\ [][NextLayout]_vars

-----------------------------------------------------------------------------
(* C17 *)

\* The position in node_sizes of the first entry for the id.
FirstEntry(node_sizes, id) ==
    CHOOSE k \in 1..Len(node_sizes) :
        /\ node_sizes[k].id = id
        /\ \A j \in 1..(k - 1) : node_sizes[j].id # id

\* C17: when node_sizes holds a node id more than once, sugiyama_layout
\* keeps the first occurrence only: the layering algorithm receives exactly
\* one vertex per distinct node id, with the size of the first entry for
\* the id (width and height swapped for LeftToRight), and later entries for
\* the id are dropped.
C17_FirstOccurrenceWins ==
    op.name = "sugiyama_layout" /\ op.done /\ ret.called =>
        LET ids == {op.node_sizes[k].id : k \in 1..Len(op.node_sizes)}
        IN  /\ Len(ret.vertices) = Cardinality(ids)
            /\ \A i, j \in 1..Len(ret.vertices) :
                  i # j => ret.vertices[i].idx # ret.vertices[j].idx
            /\ \A i \in 1..Len(ret.vertices) :
                  LET v == ret.vertices[i]
                      e == op.node_sizes[FirstEntry(op.node_sizes, ret.idx_to_id[v.idx + 1])]
                  IN  /\ v.w = IF op.horizontal THEN e.h ELSE e.w
                      /\ v.h = IF op.horizontal THEN e.w ELSE e.h

-----------------------------------------------------------------------------
(* C18 *)

\* The node pair a pin edge stands for, both pins being in the cache.
NodePairOf(e) == <<pin_positions[e[1]].node_id, pin_positions[e[2]].node_id>>

\* The pin edges of the call that join two different nodes which both have
\* a rectangle in the cache.
LayoutableEdges ==
    {e \in Range(op.edges) :
        /\ e[1] \in DOMAIN pin_positions /\ e[2] \in DOMAIN pin_positions
        /\ NodePairOf(e)[1] # NodePairOf(e)[2]
        /\ NodePairOf(e)[1] \in DOMAIN node_rects
        /\ NodePairOf(e)[2] \in DOMAIN node_rects}

\* C18: the node pairs sugiyama_layout_from_cache hands to the layering
\* algorithm are exactly the pairs of two different nodes, both with a
\* rectangle in the cache, that some pin edge of the call joins, and each
\* reaches the algorithm once: an edge with a pin that is not in the cache,
\* an edge between two pins of one node, a second edge for a pair already
\* met and an edge to a node without a rectangle are dropped.
C18_OnlyLayoutablePairsOnce ==
    op.name = "sugiyama_layout_from_cache" /\ op.done =>
        /\ ret.called
        /\ \A i, j \in 1..Len(ret.edges) : i # j => ret.edges[i] # ret.edges[j]
        /\ \A i, j \in 1..Len(ret.idx_to_id) : i # j => ret.idx_to_id[i] # ret.idx_to_id[j]
        /\ \A e \in Range(ret.edges) :
              /\ e[1] # e[2]
              /\ e[1] + 1 \in 1..Len(ret.idx_to_id)
              /\ e[2] + 1 \in 1..Len(ret.idx_to_id)
        /\ {<<ret.idx_to_id[e[1] + 1], ret.idx_to_id[e[2] + 1]>> : e \in Range(ret.edges)}
             = {NodePairOf(e) : e \in LayoutableEdges}

\* Two different pin edges for one node pair went in, one pair came out.
C18_Witness ==
    /\ op.name = "sugiyama_layout_from_cache" /\ op.done
    /\ Len(op.edges) = 2
    /\ op.edges[1] # op.edges[2]
    /\ Range(op.edges) \subseteq LayoutableEdges
    /\ NodePairOf(op.edges[1]) = NodePairOf(op.edges[2])
    /\ Len(ret.edges) = 1

-----------------------------------------------------------------------------
(* SpecView: node rectangles reported in screen space under viewports that *)
(* change between the reports, and pins on the nodes; op holds the last    *)
(* report of a node rectangle until the next operation.                    *)

\* Screen rectangles whose world values the model can hold at every zoom
\* and pan it takes.
ViewRects == {<<24, 12, 12, 4>>, <<10, 6, 8, 2>>}

Call_view_handle_node_rect ==
    \E n \in NodeIds, r \in ViewRects :
        /\ handle_node_rect(n, r[1], r[2], r[3], r[4])
        /\ op' = [name |-> "handle_node_rect", id |-> n,
                  x |-> r[1], y |-> r[2], w |-> r[3], h |-> r[4]]
        /\ UNCHANGED <<selected, model, borrows, reported_nodes, reported_pins, ret>>

Call_view_handle_pin_position ==
    \E p \in PinIds, i \in PinInputs :
        handle_pin_position(p, i[1], i[2], i[3], i[4]) /\ Did("handle_pin_position")

Call_view_set_viewport ==
    \E z \in Zooms, p \in Pans : set_viewport(z, p[1], p[2]) /\ Did("set_viewport")

NextView ==
    \/ Call_view_handle_node_rect
    \/ Call_view_handle_pin_position
    \/ Call_view_set_viewport

SpecView == Init /\ [][NextView]_vars

-----------------------------------------------------------------------------
(* C20 *)

-----------------------------------------------------------------------------
(* SpecPath: one call of generate_partial_bezier_path, the progress a       *)
(* multiple of 1 / ProgressSteps below 0, in [0, 1] or above 1.             *)

ProgressSteps == 4

PathStarts == {<<0, 0>>, <<12, 2>>}

\* End points: the start point, a point within the straight-line threshold,
\* points beyond it to the right and to the left.
PathEnds == {<<0, 0>>, <<12, 2>>, <<15, 6>>, <<36, 14>>, <<-20, 4>>, <<81, 2>>}

PathZooms == {1, 2}

Progresses == {-1, 0, 1, ProgressSteps - 1, ProgressSteps, ProgressSteps + 1}

InitPath ==
    /\ InitController
    /\ selected = {}
    /\ model = <<>>
    /\ reported_nodes = EmptyMap
    /\ reported_pins = EmptyMap
    /\ borrows = Unborrowed
    /\ ret = 0
    /\ \E s \in PathStarts, e \in PathEnds, z \in PathZooms, m \in MinOffsets, i \in Progresses :
          op = [name |-> "generate_partial_bezier_path", done |-> FALSE,
                start_x |-> s[1], start_y |-> s[2], end_x |-> e[1], end_y |-> e[2],
                zoom |-> z, min_offset |-> m, progress |-> i]

Call_generate_partial_bezier_path ==
    /\ op.name = "generate_partial_bezier_path" /\ ~op.done
    /\ ret' = generate_partial_bezier_path(op.start_x, op.start_y, op.end_x, op.end_y,
                                           op.zoom, op.min_offset, op.progress, ProgressSteps)
    /\ op' = [op EXCEPT !.done = TRUE]
    /\ HitQuiet

NextPath == Call_generate_partial_bezier_path

SpecPath == InitPath /\ [][NextPath]_vars

-----------------------------------------------------------------------------
(* C21 *)

\* C21: generate_partial_bezier_path with progress <= 0 returns the
\* zero-length path "M sx sy L sx sy" at the start point, and with
\* progress >= 1 returns the same string as generate_bezier_path for the
\* same endpoints, zoom and minimum offset.
C21_PartialPathEnds ==
    op.name = "generate_partial_bezier_path" /\ op.done =>
        /\ op.progress <= 0 =>
              ret = <<"M", 2 * op.start_x, 2 * op.start_y, "L", 2 * op.start_x, 2 * op.start_y>>
        /\ op.progress >= ProgressSteps =>
              ret = generate_bezier_path(op.start_x, op.start_y, op.end_x, op.end_y,
                                         op.zoom, op.min_offset)

\* A progress above 1 gave the full curve between two distant points.
C21_Witness ==
    /\ op.name = "generate_partial_bezier_path" /\ op.done
    /\ op.progress > ProgressSteps
    /\ Len(ret) = 10 /\ ret[4] = "C"
    /\ ret[9] = 2 * op.end_x /\ ret[5] # ret[2]

-----------------------------------------------------------------------------
(* SpecDragId: the drag events of the UI as the examples and the test       *)
(* harness wire them.  node-drag-started goes to handle_node_drag_started   *)
(* or to the drag-started callback; node-drag-ended goes to a handler that  *)
(* reads dragged_node_id() and moves the row of that node.  op.dragging is  *)
(* the node the UI is dragging, 0 when none: set by a drag-started event,   *)
(* cleared by the drag-ended event.                                         *)

\* How far a row may be dragged from the origin.
MaxDragExtent == 20

DragIdDeltas == {<<10, 20>>, <<-10, -20>>}

\* The rows of the node model: one per node, at the origin.
DragIdRows == [i \in NodeIds |-> [id |-> i, x |-> 0, y |-> 0]]

\* The loop of the on_node_drag_ended handler from row i on: the first row
\* of the node is moved by the delta, then the loop breaks.
RECURSIVE DragEndedFrom(_, _, _, _, _)
DragEndedFrom(rows, node_id, delta_x, delta_y, i) ==
    IF i > Len(rows) THEN rows
    ELSE IF rows[i].id = node_id
         THEN [rows EXCEPT ![i] = [@ EXCEPT !.x = @ + delta_x, !.y = @ + delta_y]]
         ELSE DragEndedFrom(rows, node_id, delta_x, delta_y, i + 1)

InitDragId ==
    /\ InitController
    /\ selected = {}
    /\ model = DragIdRows
    /\ reported_nodes = EmptyMap
    /\ reported_pins = EmptyMap
    /\ borrows = Unborrowed
    /\ op = [name |-> "new", dragging |-> 0]
    /\ ret = 0

\* node-drag-started handled by handle_node_drag_started; id 0 is the call
\* the tests describe as the reset.
Call_drag_handle_node_drag_started ==
    \E n \in NodeIds \cup {0} :
        /\ handle_node_drag_started(n)
        /\ op' = [name |-> "handle_node_drag_started", dragging |-> n]
        /\ UNCHANGED <<selected, model, borrows, reported_nodes, reported_pins, ret>>

\* node-drag-started handled by the closure of node_drag_started_callback.
Call_drag_node_drag_started_callback ==
    \E n \in NodeIds :
        /\ node_drag_started_callback(n)
        /\ op' = [name |-> "node_drag_started_callback", dragging |-> n]
        /\ UNCHANGED <<selected, model, borrows, reported_nodes, reported_pins, ret>>

\* node-drag-ended: fired for the drag in progress; ret is the id the
\* handler read from dragged_node_id().
Call_on_node_drag_ended ==
    \E d \in DragIdDeltas :
        /\ op.dragging # 0
        /\ LET rows == DragEndedFrom(model, dragged_node_id, d[1], d[2], 1)
           IN  /\ \A i \in 1..Len(rows) : Abs(rows[i].x) <= MaxDragExtent
               /\ model' = rows
        /\ ret' = dragged_node_id
        /\ op' = [name |-> "node_drag_ended", dragging |-> 0]
        /\ UNCHANGED <<ctrl_vars, selected, borrows, reported_nodes, reported_pins>>

NextDragId ==
    \/ Call_drag_handle_node_drag_started
    \/ Call_drag_node_drag_started_callback
    \/ Call_on_node_drag_ended

SpecDragId == InitDragId /\ [][NextDragId]_vars

-----------------------------------------------------------------------------
(* C22 *)

\* C22: dragged_node_id() is 0 whenever no node is being dragged, and while
\* a node is being dragged it is the id given to the most recent
\* handle_node_drag_started call or drag-started callback.
C22_DraggedIdZeroWhenIdle ==
    /\ op.dragging = 0 => dragged_node_id = 0
    /\ op.dragging # 0 => dragged_node_id = op.dragging

-----------------------------------------------------------------------------
(* SpecHeal: links registered before, between and after the geometry        *)
(* reports, and the cache cleared in between.  op.cleared tells that        *)
(* clear_geometry has removed the geometry of a registered link that had    *)
(* all of it.                                                               *)

\* Both pins of the registered link id and their nodes are in the cache.
LinkGeometryReported(id) ==
    /\ links[id][1] \in DOMAIN pin_positions
    /\ links[id][2] \in DOMAIN pin_positions
    /\ pin_positions[links[id][1]].node_id \in DOMAIN node_rects
    /\ pin_positions[links[id][2]].node_id \in DOMAIN node_rects

Healing(name, cleared) ==
    /\ op' = [name |-> name, cleared |-> cleared]
    /\ UNCHANGED <<selected, model, borrows, reported_nodes, reported_pins, ret>>

InitHeal ==
    /\ InitController
    /\ selected = {}
    /\ model = <<>>
    /\ reported_nodes = EmptyMap
    /\ reported_pins = EmptyMap
    /\ borrows = Unborrowed
    /\ op = [name |-> "new", cleared |-> FALSE]
    /\ ret = 0

NextHeal ==
    \/ \E n \in NodeIds, r \in ScreenRects :
            handle_node_rect(n, r[1], r[2], r[3], r[4]) /\ Healing("handle_node_rect", op.cleared)
    \/ \E p \in PinIds, i \in PinInputs :
            handle_pin_position(p, i[1], i[2], i[3], i[4])
            /\ Healing("handle_pin_position", op.cleared)
    \/ \E z \in Zooms, p \in Pans :
            set_viewport(z, p[1], p[2]) /\ Healing("set_viewport", op.cleared)
    \/ \E l \in LinkIds, a \in PinIds, b \in PinIds :
            register_link(l, a, b) /\ Healing("register_link", FALSE)
    \/ clear_geometry
       /\ Healing("clear_geometry",
                  op.cleared \/ \E l \in DOMAIN links : LinkGeometryReported(l))

SpecHeal == InitHeal /\ [][NextHeal]_vars

-----------------------------------------------------------------------------
(* C23 *)

\* The screen position of a pin whose node is in the cache, as the hit
\* tests see it.
PinOnScreen(p) ==
    <<AbsX(node_rects, pin_positions[p]) * safe_zoom(State) + pan_x,
      AbsY(node_rects, pin_positions[p]) * safe_zoom(State) + pan_y>>

\* C23: a registered link with a pin or a node that is not in the cache
\* (not reported yet, or removed by clear_geometry) has the empty path from
\* compute_link_path and is returned by neither find_link_at_screen nor
\* links_in_selection_box_screen; once both pins and both nodes are in the
\* cache, in whatever order they were reported, compute_link_path gives a
\* path and both queries find the link at its start pin, the link not being
\* registered again.
C23_LinkSelfHealing ==
    \A l \in DOMAIN links :
        LET path == Controller_compute_link_path(node_rects, pin_positions, State,
                                                 links[l][1], links[l][2])
        IN  IF ~LinkGeometryReported(l)
            THEN /\ path = EmptyString
                 /\ \A o \in Orders(links), m \in QueryPoints, h \in HoverDistances, n \in HitSamples :
                       find_link_at_screen(node_rects, pin_positions, State, o, m[1], m[2], h,
                                           DefaultBezierOffset, n) # l
                 /\ \A o \in Orders(links), m \in QueryPoints, b \in BoxSizes :
                       WorldRectExact(State, m[1], m[2], b[1], b[2]) =>
                           l \notin Range(links_in_selection_box_screen(
                               node_rects, pin_positions, State, o, m[1], m[2], b[1], b[2]))
            ELSE LET at == PinOnScreen(links[l][1])
                 IN  /\ IsPath(path)
                     /\ \A n \in HitSamples : \E o \in Orders(links) :
                           find_link_at_screen(node_rects, pin_positions, State, o, at[1], at[2],
                                               1, DefaultBezierOffset, n) = l
                     /\ \A o \in Orders(links) :
                           l \in Range(links_in_selection_box_screen(
                               node_rects, pin_positions, State, o, at[1], at[2], 0, 0))

\* The geometry of a registered link was cleared and reported again, and
\* the link, registered before the clearing, has its path and is found.
C23_Witness ==
    /\ op.cleared
    /\ \E l \in DOMAIN links :
          /\ LinkGeometryReported(l)
          /\ links[l][1] # links[l][2]
          /\ IsPath(Controller_compute_link_path(node_rects, pin_positions, State,
                                                 links[l][1], links[l][2]))
          /\ \A n \in HitSamples : \E o \in Orders(links) :
                find_link_at_screen(node_rects, pin_positions, State, o,
                                    PinOnScreen(links[l][1])[1], PinOnScreen(links[l][1])[2],
                                    1, DefaultBezierOffset, n) = l

-----------------------------------------------------------------------------
(* SpecBorrow: the borrows of the controller's two RefCells.  A controller  *)
(* operation or callback is the sequence of borrows and drops its code      *)
(* makes, one step each; between two operations the caller may take and     *)
(* give back a borrow of the cache handed out by cache().  op holds the     *)
(* operation running, its position pc (0 when it has returned) and whether  *)
(* a borrow has panicked.                                                   *)

\* Operations that make one mutable borrow of the state, dropped at the end
\* of the statement or of the function.
StateWriters ==
    {"set_bezier_offset", "set_grid_spacing", "node_drag_started_callback",
     "handle_node_drag_started", "set_zoom", "set_viewport", "register_link",
     "unregister_link", "clear_links"}

\* Operations that make one shared borrow of the state.
StateReaders == {"zoom", "dragged_node_id", "generate_grid", "generate_initial_grid"}

\* Operations that make one mutable borrow of the cache.
CacheWriters == {"handle_pin_position", "seed_node_world_rect", "clear_geometry"}

\* Operations that read the state, drop the borrow, and then read the cache.
StateThenCacheReaders == {"find_pin_at_screen", "nodes_in_selection_box_screen"}

\* Operations that read the cache while they hold their borrow of the state.
StateAndCacheReaders ==
    {"compute_link_path_callback", "compute_link_path", "find_link_at_screen",
     "links_in_selection_box_screen"}

Operations ==
    StateWriters \cup StateReaders \cup CacheWriters \cup StateThenCacheReaders
        \cup StateAndCacheReaders \cup {"handle_node_rect"}

\* The borrows gone wrong: set_viewport reads the zoom through a second
\* borrow while it holds its mutable borrow of the state.
Program_set_viewport_reads_zoom(name) ==
    IF name = "set_viewport"
    THEN <<(<<"borrow_mut", "state">>), (<<"borrow", "state">>),
           (<<"drop", "state">>), (<<"drop", "state">>)>>
    ELSE IF name \in StateWriters THEN <<(<<"borrow_mut", "state">>), (<<"drop", "state">>)>>
    ELSE IF name \in StateReaders THEN <<(<<"borrow", "state">>), (<<"drop", "state">>)>>
    ELSE IF name \in CacheWriters THEN <<(<<"borrow_mut", "cache">>), (<<"drop", "cache">>)>>
    ELSE IF name \in StateThenCacheReaders
    THEN <<(<<"borrow", "state">>), (<<"drop", "state">>),
           (<<"borrow", "cache">>), (<<"drop", "cache">>)>>
    ELSE IF name \in StateAndCacheReaders
    THEN <<(<<"borrow", "state">>), (<<"borrow", "cache">>),
           (<<"drop", "cache">>), (<<"drop", "state">>)>>
    ELSE <<(<<"borrow", "state">>), (<<"drop", "state">>),
           (<<"borrow_mut", "cache">>), (<<"drop", "cache">>)>>

\* The borrows and drops of an operation, in the order its code makes them.
\* The last case is handle_node_rect: drop(s) comes before borrow_mut().
Program(name) ==
    IF name \in StateWriters THEN <<(<<"borrow_mut", "state">>), (<<"drop", "state">>)>>
    ELSE IF name \in StateReaders THEN <<(<<"borrow", "state">>), (<<"drop", "state">>)>>
    ELSE IF name \in CacheWriters THEN <<(<<"borrow_mut", "cache">>), (<<"drop", "cache">>)>>
    ELSE IF name \in StateThenCacheReaders
    THEN <<(<<"borrow", "state">>), (<<"drop", "state">>),
           (<<"borrow", "cache">>), (<<"drop", "cache">>)>>
    ELSE IF name \in StateAndCacheReaders
    THEN <<(<<"borrow", "state">>), (<<"borrow", "cache">>),
           (<<"drop", "cache">>), (<<"drop", "state">>)>>
    ELSE <<(<<"borrow", "state">>), (<<"drop", "state">>),
           (<<"borrow_mut", "cache">>), (<<"drop", "cache">>)>>

\* RefCell::borrow succeeds unless the cell is mutably borrowed;
\* RefCell::borrow_mut succeeds only on a cell that is not borrowed.
CanBorrow(flag) == flag >= 0

CanBorrowMut(flag) == flag = 0

\* The flag after a borrow was dropped.
Dropped(flag) == IF flag < 0 THEN 0 ELSE flag - 1

InitBorrow ==
    /\ InitController
    /\ selected = {}
    /\ model = <<>>
    /\ reported_nodes = EmptyMap
    /\ reported_pins = EmptyMap
    /\ borrows = Unborrowed
    /\ op = [name |-> "new", pc |-> 0, panicked |-> FALSE]
    /\ ret = 0

BorrowQuiet == UNCHANGED <<ctrl_vars, selected, model, reported_nodes, reported_pins, ret>>

\* The caller calls an operation or a callback.
Begin ==
    \E name \in Operations :
        /\ op.pc = 0 /\ ~op.panicked
        /\ op' = [name |-> name, pc |-> 1, panicked |-> FALSE]
        /\ UNCHANGED borrows
        /\ BorrowQuiet

\* The position after step pc: 0 after the last one, the operation returns.
After(name, pc) == IF pc = Len(Program(name)) THEN 0 ELSE pc + 1

Step_borrow ==
    /\ op.pc > 0 /\ ~op.panicked
    /\ Program(op.name)[op.pc][1] = "borrow"
    /\ LET cell == Program(op.name)[op.pc][2]
       IN  IF CanBorrow(borrows[cell])
           THEN /\ borrows' = [borrows EXCEPT ![cell] = @ + 1]
                /\ op' = [op EXCEPT !.pc = After(op.name, op.pc)]
           ELSE /\ op' = [op EXCEPT !.panicked = TRUE]
                /\ UNCHANGED borrows
    /\ BorrowQuiet

Step_borrow_mut ==
    /\ op.pc > 0 /\ ~op.panicked
    /\ Program(op.name)[op.pc][1] = "borrow_mut"
    /\ LET cell == Program(op.name)[op.pc][2]
       IN  IF CanBorrowMut(borrows[cell])
           THEN /\ borrows' = [borrows EXCEPT ![cell] = -1]
                /\ op' = [op EXCEPT !.pc = After(op.name, op.pc)]
           ELSE /\ op' = [op EXCEPT !.panicked = TRUE]
                /\ UNCHANGED borrows
    /\ BorrowQuiet

Step_drop ==
    /\ op.pc > 0 /\ ~op.panicked
    /\ Program(op.name)[op.pc][1] = "drop"
    /\ LET cell == Program(op.name)[op.pc][2]
       IN  borrows' = [borrows EXCEPT ![cell] = Dropped(@)]
    /\ op' = [op EXCEPT !.pc = After(op.name, op.pc)]
    /\ BorrowQuiet

\* Between two operations the caller borrows the cache it got from cache().
Caller_borrow ==
    /\ op.pc = 0 /\ ~op.panicked
    /\ borrows.held = "none"
    /\ \/ borrows' = [borrows EXCEPT !.cache = @ + 1, !.held = "shared"]
       \/ borrows' = [borrows EXCEPT !.cache = -1, !.held = "mut"]
    /\ UNCHANGED op
    /\ BorrowQuiet

Caller_drop ==
    /\ op.pc = 0 /\ ~op.panicked
    /\ borrows.held # "none"
    /\ borrows' = [borrows EXCEPT !.cache = Dropped(@), !.held = "none"]
    /\ UNCHANGED op
    /\ BorrowQuiet

NextBorrow ==
    \/ Begin
    \/ Step_borrow
    \/ Step_borrow_mut
    \/ Step_drop
    \/ Caller_borrow
    \/ Caller_drop

SpecBorrow == InitBorrow /\ [][NextBorrow]_vars

-----------------------------------------------------------------------------
(* C24 *)

\* The borrows of cell that the operation itself holds before step pc.
OwnBorrows(name, cell, pc) ==
    Cardinality({i \in 1..(pc - 1) : Program(name)[i] \in {<<"borrow", cell>>, <<"borrow_mut", cell>>}})
        - Cardinality({i \in 1..(pc - 1) : Program(name)[i] = <<"drop", cell>>})

\* The operation holds a mutable borrow of cell before step pc.
OwnsMut(name, cell, pc) ==
    \E i \in 1..(pc - 1) :
        /\ Program(name)[i] = <<"borrow_mut", cell>>
        /\ \A j \in (i + 1)..(pc - 1) : Program(name)[j] # <<"drop", cell>>

\* C24: no controller operation or callback asks for a mutable borrow of a
\* cell it still borrows, or for any borrow of a cell it has mutably
\* borrowed, and each has dropped all its borrows when it returns; so a
\* borrow panics only while the caller holds a borrow obtained from
\* cache(), and with no such borrow every call returns with both cells
\* unborrowed.
C24_NoBorrowPanic ==
    /\ \A name \in Operations, cell \in {"state", "cache"} :
          /\ \A pc \in 1..Len(Program(name)) :
                /\ Program(name)[pc] = <<"borrow_mut", cell>> => OwnBorrows(name, cell, pc) = 0
                /\ Program(name)[pc] = <<"borrow", cell>> => ~OwnsMut(name, cell, pc)
          /\ OwnBorrows(name, cell, Len(Program(name)) + 1) = 0
    /\ op.panicked => borrows.held # "none"
    /\ op.pc = 0 /\ ~op.panicked =>
          /\ borrows.state = 0
          /\ borrows.cache = (IF borrows.held = "none" THEN 0
                              ELSE IF borrows.held = "shared" THEN 1 ELSE -1)

\* The link-path callback holds its borrows of the state and of the cache,
\* the caller holding none.
C24_Witness ==
    /\ op.name = "compute_link_path_callback"
    /\ op.pc = 3 /\ ~op.panicked
    /\ borrows = [state |-> 1, cache |-> 1, held |-> "none"]

-----------------------------------------------------------------------------
(* C25 *)

\* The curve find_link_at_screen measures the distance to for the
\* registered link id, whose geometry is in the cache, when it is called
\* with bezier_min_offset.
HitTestCurve(id, bezier_min_offset) ==
    LET g == ScreenLinkGeometries(node_rects, pin_positions, State, <<id>>)[1]
    IN  from_endpoints(g.start_x, g.start_y, g.end_x, g.end_y, safe_zoom(State),
                       bezier_min_offset)

\* The curve a path string draws, as its four control points: a straight
\* line is the curve whose control points lie on its two ends.
DrawnCurve(path) ==
    IF Len(path) = 6
    THEN [p0 |-> <<path[2], path[3]>>, p1 |-> <<path[2], path[3]>>,
          p2 |-> <<path[5], path[6]>>, p3 |-> <<path[5], path[6]>>]
    ELSE [p0 |-> <<path[2], path[3]>>, p1 |-> <<path[5], path[6]>>,
          p2 |-> <<path[7], path[8]>>, p3 |-> <<path[9], path[10]>>]

\* C25: for every registered link whose geometry is in the cache and every
\* zoom > 0, the curve find_link_at_screen measures the distance to is the
\* curve compute_link_path renders for the link under the current
\* viewport: the same two endpoints, the same control points, and the
\* straight line for the same endpoints.
C25_HitTestCurveIsRenderedCurve ==
    \A l \in DOMAIN links, m \in MinOffsets :
        zoom > 0 /\ LinkGeometryReported(l) =>
            HitTestCurve(l, m)
                = DrawnCurve(Controller_compute_link_path(node_rects, pin_positions, State,
                                                          links[l][1], links[l][2]))

-----------------------------------------------------------------------------
(* SpecReg: register_link, unregister_link and clear_links on a controller  *)
(* whose cache holds two nodes and a pin on each; op.log is the sequence of *)
(* the registry calls made so far.                                          *)

MaxRegCalls == 4

RegLinkIds == {1, 2}

\* Node 1 and node 2 at the same place; pin 1 on the right edge of node 1,
\* pin 2 on the left edge of node 2.
RegNodes ==
    update_node_rect(update_node_rect(EmptyMap, 1, 24, 12, 12, 4), 2, 24, 12, 12, 4)

RegPins == handle_pin_report(handle_pin_report(EmptyMap, 1, 1, 2, 12, 2), 2, 2, 1, 0, 2)

\* The pin pairs links are registered with: from pin 1 to pin 2 and back.
RegPinPairs == {<<1, 2>>, <<2, 1>>}

InitReg ==
    /\ node_rects = RegNodes
    /\ pin_positions = RegPins
    /\ zoom = 1 /\ pan_x = 0 /\ pan_y = 0
    /\ bezier_offset = DefaultBezierOffset
    /\ dragged_node_id = 0
    /\ links = EmptyMap
    /\ selected = {}
    /\ model = <<>>
    /\ reported_nodes = EmptyMap
    /\ reported_pins = EmptyMap
    /\ borrows = Unborrowed
    /\ op = [name |-> "new", log |-> <<>>]
    /\ ret = 0

Logged(name, id, start_pin, end_pin) ==
    /\ Len(op.log) < MaxRegCalls
    /\ op' = [name |-> name,
              log  |-> Append(op.log, [name |-> name, id |-> id,
                                       start_pin |-> start_pin, end_pin |-> end_pin])]
    /\ UNCHANGED <<selected, model, borrows, reported_nodes, reported_pins, ret>>

NextReg ==
    \/ \E l \in RegLinkIds, p \in RegPinPairs :
            register_link(l, p[1], p[2]) /\ Logged("register_link", l, p[1], p[2])
    \/ \E l \in RegLinkIds : unregister_link(l) /\ Logged("unregister_link", l, 0, 0)
    \/ clear_links /\ Logged("clear_links", 0, 0, 0)

SpecReg == InitReg /\ [][NextReg]_vars

-----------------------------------------------------------------------------
(* C26 *)

\* The position in the log of the last call that registered or unregistered
\* the id or cleared the registry; 0 when there is none.
LastCallFor(id) ==
    LET touching == {k \in 1..Len(op.log) :
                        op.log[k].name = "clear_links" \/ op.log[k].id = id}
    IN  IF touching = {} THEN 0
        ELSE CHOOSE k \in touching : \A j \in touching : j <= k

\* The ids registered now, by the log.
RegisteredNow ==
    {id \in RegLinkIds :
        LastCallFor(id) # 0 /\ op.log[LastCallFor(id)].name = "register_link"}

\* C26: after any sequence of register_link, unregister_link and
\* clear_links the registry holds exactly the ids whose latest call was a
\* registration, each with the pins of that registration (a second
\* registration of an id replaces the pins), and find_link_at_screen and
\* links_in_selection_box_screen return no id that is not registered at
\* the time of the call.
C26_RegistryHoldsLatestRegistration ==
    /\ DOMAIN links = RegisteredNow
    /\ \A id \in RegisteredNow :
          links[id] = <<op.log[LastCallFor(id)].start_pin, op.log[LastCallFor(id)].end_pin>>
    /\ \A o \in Orders(links), m \in QueryPoints :
          /\ \A h \in HoverDistances, n \in HitSamples :
                find_link_at_screen(node_rects, pin_positions, State, o, m[1], m[2], h,
                                    DefaultBezierOffset, n) \in RegisteredNow \cup {NoLink}
          /\ \A b \in BoxSizes :
                Range(links_in_selection_box_screen(node_rects, pin_positions, State, o,
                                                    m[1], m[2], b[1], b[2])) \subseteq RegisteredNow

\* Link 1 was registered twice with different pins and holds the later
\* pair, link 2 was registered and unregistered, and the hit test at the
\* place of both links returns link 1.
C26_Witness ==
    /\ Len(op.log) = 4
    /\ DOMAIN links = {1}
    /\ \E j, k \in 1..4 :
          /\ j < k
          /\ op.log[j].name = "register_link" /\ op.log[j].id = 1
          /\ op.log[k].name = "register_link" /\ op.log[k].id = 1
          /\ op.log[j].start_pin # op.log[k].start_pin
          /\ links[1] = <<op.log[k].start_pin, op.log[k].end_pin>>
    /\ op.log[4] = [name |-> "unregister_link", id |-> 2, start_pin |-> 0, end_pin |-> 0]
    /\ \E j \in 1..3 : op.log[j].name = "register_link" /\ op.log[j].id = 2
    /\ find_link_at_screen(node_rects, pin_positions, State, <<1>>, 36, 14, 3,
                           DefaultBezierOffset, 3) = 1

-----------------------------------------------------------------------------
(* src/src/links.rs: LinkManager::update_paths and the model syncer.  A     *)
(* managed link is [id, start_pin, end_pin], a path entry and a model row   *)
(* are [id, path_commands]; colour and line width are carried along         *)
(* unchanged and left out.                                                  *)

\* The loop of update_paths over self.links, paths being cleared before: an
\* entry is pushed for every link compute_link_path has a path for.
update_paths(mlinks, nodes, pins, z, offset) ==
    LET F(l) ==
            LET path == compute_link_path(nodes, pins, l.start_pin, l.end_pin, z, offset)
            IN  IF path = None THEN <<>>
                ELSE <<[id |-> l.id, path_commands |-> path]>>
    IN  Collect([k \in 1..Len(mlinks) |-> F(mlinks[k])], 1)

\* The first loop of ConcreteModelSyncer::sync from path i on: a row that
\* exists is set, a row that does not is pushed.
RECURSIVE SyncRowsFrom(_, _, _)
SyncRowsFrom(rows, paths, i) ==
    IF i > Len(paths) THEN rows
    ELSE IF i - 1 < Len(rows)
         THEN SyncRowsFrom([rows EXCEPT ![i] = paths[i]], paths, i + 1)
         ELSE SyncRowsFrom(Append(rows, paths[i]), paths, i + 1)

\* The second loop of sync: the last row is removed while there are more
\* rows than paths.
RECURSIVE RemoveExcess(_, _)
RemoveExcess(rows, n) ==
    IF Len(rows) > n THEN RemoveExcess(SubSeq(rows, 1, Len(rows) - 1), n) ELSE rows

\* sync gone wrong: the rows beyond the paths stay.
sync_keeps_excess_rows(rows, paths) == SyncRowsFrom(rows, paths, 1)

sync(rows, paths) == RemoveExcess(SyncRowsFrom(rows, paths, 1), Len(paths))

-----------------------------------------------------------------------------
(* SpecLinks: one call of update_paths on a manager with the links in       *)
(* op.links and the bezier offset op.offset, bound to the model or not, the *)
(* model holding the rows of an earlier update.                             *)

MaxManaged == 2

MaxOldRows == 3

\* Pin 3 is in no cache.
ManagedLinkValues ==
    {[id |-> i, start_pin |-> p[1], end_pin |-> p[2]] :
        i \in {1, 2}, p \in {<<1, 2>>, <<2, 1>>, <<1, 3>>}}

\* Rows of an earlier update.
OldRowValues == {[id |-> 1, path_commands |-> <<"M", 0, 0, "L", 0, 0>>],
                 [id |-> 7, path_commands |-> <<"M", 2, 2, "L", 4, 4>>]}

\* The caches: both nodes reported, or node 2 not reported.
LinkCacheNodes == {RegNodes, update_node_rect(EmptyMap, 1, 24, 12, 12, 4)}

InitLinks ==
    /\ node_rects \in LinkCacheNodes
    /\ pin_positions = RegPins
    /\ zoom = 1 /\ pan_x = 0 /\ pan_y = 0
    /\ bezier_offset = DefaultBezierOffset
    /\ dragged_node_id = 0
    /\ links = EmptyMap
    /\ selected = {}
    /\ model \in SeqsUpTo(OldRowValues, MaxOldRows)
    /\ reported_nodes = EmptyMap
    /\ reported_pins = EmptyMap
    /\ borrows = Unborrowed
    /\ ret = <<>>
    /\ \E ls \in SeqsUpTo(ManagedLinkValues, MaxManaged), z \in PathZooms, m \in MinOffsets,
          b \in BOOLEAN :
          op = [name |-> "update_paths", done |-> FALSE, links |-> ls, zoom |-> z,
                offset |-> m, bound |-> b, rows_before |-> model]

\* update_paths; ret is self.paths after the call.
Call_update_paths ==
    /\ op.name = "update_paths" /\ ~op.done
    /\ LET paths == update_paths(op.links, node_rects, pin_positions, op.zoom, op.offset)
       IN  /\ ret' = paths
           /\ model' = IF op.bound THEN sync(model, paths) ELSE model
    /\ op' = [op EXCEPT !.done = TRUE]
    /\ UNCHANGED <<ctrl_vars, selected, borrows, reported_nodes, reported_pins>>

NextLinks == Call_update_paths

SpecLinks == InitLinks /\ [][NextLinks]_vars

-----------------------------------------------------------------------------
(* C27 *)

\* Both pins of the managed link and their nodes are in the cache.
ManagedLinkResolves(l) ==
    /\ l.start_pin \in DOMAIN pin_positions
    /\ l.end_pin \in DOMAIN pin_positions
    /\ pin_positions[l.start_pin].node_id \in DOMAIN node_rects
    /\ pin_positions[l.end_pin].node_id \in DOMAIN node_rects

\* C27: after an update_paths call the computed paths are one entry per
\* managed link whose two pins and their nodes are in the cache, in the
\* order the links were added, each with the id of its link and a path;
\* a bound model holds exactly these entries in the same order, with no
\* row of an earlier update left, and a model that is not bound is left
\* alone.
C27_PathsFollowManagedLinks ==
    op.name = "update_paths" /\ op.done =>
        LET drawn == SelectSeq(op.links, ManagedLinkResolves)
        IN  /\ Len(ret) = Len(drawn)
            /\ \A i \in 1..Len(drawn) :
                  /\ ret[i].id = drawn[i].id
                  /\ IsPath(ret[i].path_commands)
                  /\ ret[i].path_commands[2] = 2 * AbsX(node_rects, pin_positions[drawn[i].start_pin])
                  /\ ret[i].path_commands[Len(ret[i].path_commands) - 1]
                        = 2 * AbsX(node_rects, pin_positions[drawn[i].end_pin])
            /\ op.bound => model = ret
            /\ ~op.bound => model = op.rows_before

\* Of two managed links the second has a path, the first has not; the bound
\* model held three rows and holds the one path.
C27_Witness ==
    /\ op.name = "update_paths" /\ op.done /\ op.bound
    /\ Len(op.links) = 2
    /\ ~ManagedLinkResolves(op.links[1])
    /\ ManagedLinkResolves(op.links[2])
    /\ Len(op.rows_before) = 3
    /\ Len(model) = 1
    /\ model[1].id = op.links[2].id
    /\ model[1] \notin Range(op.rows_before)


-----------------------------------------------------------------------------
(* C28 *)

\* BasicLinkValidator { output_type }.validate(a, b, cache, _) on the cache of
\* the state.
BasicAccepts(output_type, a, b) ==
    BasicLinkValidator_validate(output_type, a, b, pin_positions) = Valid

\* C28: whenever BasicLinkValidator with output type T accepts the pair
\* (pin_a, pin_b), normalize_link_direction with the same T has returned
\* Some((output_pin, input_pin)), where output_pin is the one of the two pins
\* whose type is T and input_pin the other one, whose type is not T; and
\* normalize_link_direction returns the same pair for (pin_b, pin_a).
C28_AcceptedPairNormalizesToOutputInput ==
    op.name = "normalize_link_direction" /\ op.done
        /\ BasicAccepts(op.output_type, op.pin_a, op.pin_b) =>
            /\ ret # None
            /\ {ret[2], ret[3]} = {op.pin_a, op.pin_b}
            /\ pin_positions[ret[2]].pin_type = op.output_type
            /\ pin_positions[ret[3]].pin_type # op.output_type
            /\ normalize_link_direction(op.pin_b, op.pin_a, pin_positions, op.output_type) = ret

\* An accepted pair given input pin first has come back swapped.
C28_Witness ==
    /\ op.name = "normalize_link_direction" /\ op.done
    /\ BasicAccepts(op.output_type, op.pin_a, op.pin_b)
    /\ pin_positions[op.pin_a].pin_type # op.output_type
    /\ ret = Some(op.pin_b, op.pin_a)


-----------------------------------------------------------------------------
(* SpecIds: a controller whose pins and links are reported under any i32    *)
(* id, 0 and -1 among them, and asked for the pin and the link at a point.  *)
(* `op` holds the last call with its arguments, `ret` what a query returned *)
(* for one iteration order of the map it walks.                             *)

IdPinIds == {0, 1}

IdLinkIds == {-1, 1}

IdNodeIds == {1, 2}

\* Node rectangles at zoom 1 and pan 0, as <<x, y, w, h>>.
IdRects == {<<24, 12, 12, 4>>, <<60, 12, 12, 4>>}

\* Pin reports as <<node_id, pin_type, rel_x, rel_y>>: an output on the right
\* edge of node 1, an input on the left edge of node 2.
IdPinInputs == {<<1, 2, 12, 2>>, <<2, 1, 0, 2>>}

\* The right edge of the first rectangle, the left edge of the second, a far
\* point.
IdMice == {<<36, 14>>, <<60, 14>>, <<100, 100>>}

IdHitRadii == {6}

IdHoverDistances == {3}

IdSampleCounts == {3}

InitIds ==
    /\ InitController
    /\ selected = {}
    /\ model = <<>>
    /\ reported_nodes = EmptyMap
    /\ reported_pins = EmptyMap
    /\ borrows = Unborrowed
    /\ op = [name |-> "new"]
    /\ ret = 0

IdQuiet == UNCHANGED <<selected, model, borrows, reported_nodes, reported_pins>>

Call_ids_handle_node_rect ==
    \E n \in IdNodeIds, r \in IdRects :
        /\ handle_node_rect(n, r[1], r[2], r[3], r[4])
        /\ op' = [name |-> "handle_node_rect"]
        /\ UNCHANGED ret /\ IdQuiet

Call_ids_handle_pin_position ==
    \E p \in IdPinIds, i \in IdPinInputs :
        /\ handle_pin_position(p, i[1], i[2], i[3], i[4])
        /\ op' = [name |-> "handle_pin_position"]
        /\ UNCHANGED ret /\ IdQuiet

Call_ids_register_link ==
    \E l \in IdLinkIds, a \in IdPinIds, b \in IdPinIds :
        /\ register_link(l, a, b)
        /\ op' = [name |-> "register_link"]
        /\ UNCHANGED ret /\ IdQuiet

Call_ids_find_pin_at_screen ==
    \E m \in IdMice, r \in IdHitRadii, o \in Orders(pin_positions) :
        /\ ret' = find_pin_at_screen(node_rects, pin_positions, State, o, m[1], m[2], r)
        /\ op' = [name |-> "find_pin_at_screen", mouse_x |-> m[1], mouse_y |-> m[2],
                  hit_radius |-> r]
        /\ UNCHANGED ctrl_vars /\ IdQuiet

Call_ids_find_link_at_screen ==
    \E m \in IdMice, h \in IdHoverDistances, n \in IdSampleCounts, o \in Orders(links) :
        /\ ret' = find_link_at_screen(node_rects, pin_positions, State, o, m[1], m[2],
                                      h, DefaultBezierOffset, n)
        /\ op' = [name |-> "find_link_at_screen", mouse_x |-> m[1], mouse_y |-> m[2],
                  hover_distance |-> h, hit_samples |-> n]
        /\ UNCHANGED ctrl_vars /\ IdQuiet

NextIds ==
    \/ Call_ids_handle_node_rect
    \/ Call_ids_handle_pin_position
    \/ Call_ids_register_link
    \/ Call_ids_find_pin_at_screen
    \/ Call_ids_find_link_at_screen

SpecIds == InitIds /\ [][NextIds]_vars

-----------------------------------------------------------------------------
(* C29 *)

\* The pins find_pin_at_screen is given that lie within the hit radius of
\* the point of the query in `op`.
IdPinsWithinRadius ==
    LET ps == ScreenPinGeometries(node_rects, pin_positions, State,
                                  CHOOSE o \in Orders(pin_positions) : TRUE)
    IN  {ps[i].id : i \in {k \in 1..Len(ps) :
            (op.mouse_x - ps[k].x) * (op.mouse_x - ps[k].x)
              + (op.mouse_y - ps[k].y) * (op.mouse_y - ps[k].y)
                <= op.hit_radius * op.hit_radius}}

\* The links find_link_at_screen is given whose curve lies within the hover
\* distance of the point of the query in `op`.
IdLinksWithinHover ==
    LET ls == ScreenLinkGeometries(node_rects, pin_positions, State,
                                   CHOOSE o \in Orders(links) : TRUE)
    IN  {ls[i].id : i \in {k \in 1..Len(ls) :
            MixedLt(LinkDistSq(op.mouse_x, op.mouse_y, ls[k], safe_zoom(State),
                               DefaultBezierOffset, op.hit_samples),
                    HoverSq(op.hover_distance, op.hit_samples))}}

\* C29: a result of 0 from find_pin_at_screen means that no pin lies within
\* the hit radius, and a result of -1 from find_link_at_screen means that no
\* link lies within the hover distance, for any pin and link ids the cache
\* and the registry hold.
C29_SentinelMeansNoHit ==
    /\ op.name = "find_pin_at_screen" /\ ret = NoPin => IdPinsWithinRadius = {}
    /\ op.name = "find_link_at_screen" /\ ret = NoLink => IdLinksWithinHover = {}


-----------------------------------------------------------------------------
(* src/src/grid.rs: generate_grid_commands.  The f32 values are the         *)
(* integers among them, and every sum is rounded as f32 rounds it: to 24    *)
(* significant bits, a tie going to the even significand.                   *)

SignificandBits == 24

RECURSIVE Pow2(_)
Pow2(n) == IF n = 0 THEN 1 ELSE 2 * Pow2(n - 1)

\* The unit in the last place of the f32 nearest to v >= 0: 1 below 2^24,
\* then doubling with every binade.
RECURSIVE UlpFrom(_, _)
UlpFrom(v, ulp) == IF v < ulp * Pow2(SignificandBits) THEN ulp ELSE UlpFrom(v, 2 * ulp)

\* The f32 nearest to the integer v, ties to even.
f32(v) ==
    LET a    == IF v < 0 THEN -v ELSE v
        ulp  == UlpFrom(a, 1)
        q    == a \div ulp
        r    == a % ulp
        near == IF 2 * r < ulp THEN q * ulp
                ELSE IF 2 * r > ulp THEN (q + 1) * ulp
                ELSE IF q % 2 = 0 THEN q * ulp
                ELSE (q + 1) * ulp
    IN  IF v < 0 THEN -near ELSE near

\* f32::rem_euclid: the remainder of the truncated division, made
\* non-negative.
rem_euclid(lhs, rhs) ==
    LET b == IF rhs < 0 THEN -rhs ELSE rhs
        r == IF lhs >= 0 THEN lhs % b ELSE -((-lhs) % b)
    IN  IF r < 0 THEN r + b ELSE r

effective_spacing(spacing, z) == f32(spacing * z)

-----------------------------------------------------------------------------
(* SpecGrid: one call of generate_grid_commands, a step for each passage of *)
(* its two loops.  `op` holds the arguments, the place in the function, the *)
(* loop variables x and y and the numbers of vertical and horizontal lines  *)
(* pushed to `commands`, counted up to MaxCounted; `ret` is what the call   *)
(* returned, by the numbers of lines in the string.                         *)

MaxCounted == 16777220

GridWidths == {0, 50, 100}

GridHeights == {0, 50}

GridZooms == {-1, 0, 1, 2}

GridPans == {<<0, 0>>, <<-10, 30>>}

GridSpacings == {-4, 2, 3, 4, 24}

\* generate_grid_commands(width, height, zoom, pan_x, pan_y, spacing) about
\* to be entered.
GridCalls ==
    {[name |-> "generate_grid_commands", pc |-> "call", width |-> w, height |-> h,
      zoom |-> z, pan_x |-> p[1], pan_y |-> p[2], spacing |-> s,
      x |-> 0, y |-> 0, vertical |-> 0, horizontal |-> 0] :
        w \in GridWidths, h \in GridHeights, z \in GridZooms, p \in GridPans,
        s \in GridSpacings}

\* generate_grid_commands(100000000.0, 0.0, 1.0, 0.0, 0.0, 4.0) after the
\* first 2^24 - 2 passages of its first loop: x has gone through the
\* multiples of 4 below 2^26, each of them an f32.
GridLateCalls ==
    {[name |-> "generate_grid_commands", pc |-> "vertical", width |-> 100000000, height |-> 0,
      zoom |-> 1, pan_x |-> 0, pan_y |-> 0, spacing |-> 4,
      x |-> 4 * n, y |-> 0, vertical |-> n, horizontal |-> 0] :
        n \in {Pow2(SignificandBits) - 2}}

InitGrid ==
    /\ InitController
    /\ selected = {}
    /\ model = <<>>
    /\ reported_nodes = EmptyMap
    /\ reported_pins = EmptyMap
    /\ borrows = Unborrowed
    /\ op \in GridCalls \cup GridLateCalls
    /\ ret = 0

GridQuiet == UNCHANGED <<ctrl_vars, selected, model, borrows, reported_nodes, reported_pins>>

\* String::new(), or `commands` with its lines.
Commands(vertical, horizontal) == [vertical |-> vertical, horizontal |-> horizontal]

Counted(n) == IF n < MaxCounted THEN n + 1 ELSE n

\* effective_spacing < 4.0: return String::new().
Grid_return_empty ==
    /\ op.pc = "call"
    /\ effective_spacing(op.spacing, op.zoom) < 4
    /\ op' = [op EXCEPT !.pc = "done"]
    /\ ret' = Commands(0, 0)
    /\ GridQuiet

\* The offsets and the start of the first loop.
Grid_enter ==
    /\ op.pc = "call"
    /\ LET es == effective_spacing(op.spacing, op.zoom)
       IN  /\ ~(es < 4)
           /\ op' = [op EXCEPT !.pc = "vertical",
                               !.x = rem_euclid(op.pan_x, es),
                               !.y = rem_euclid(op.pan_y, es)]
    /\ UNCHANGED ret
    /\ GridQuiet

\* A passage of `while x < width + effective_spacing`.
Grid_vertical_line ==
    /\ op.pc = "vertical"
    /\ LET es == effective_spacing(op.spacing, op.zoom)
       IN  /\ op.x < f32(op.width + es)
           /\ op' = [op EXCEPT !.vertical = Counted(@), !.x = f32(@ + es)]
    /\ UNCHANGED ret
    /\ GridQuiet

\* The first loop is left, the second begins.
Grid_vertical_end ==
    /\ op.pc = "vertical"
    /\ ~(op.x < f32(op.width + effective_spacing(op.spacing, op.zoom)))
    /\ op' = [op EXCEPT !.pc = "horizontal"]
    /\ UNCHANGED ret
    /\ GridQuiet

\* A passage of `while y < height + effective_spacing`.
Grid_horizontal_line ==
    /\ op.pc = "horizontal"
    /\ LET es == effective_spacing(op.spacing, op.zoom)
       IN  /\ op.y < f32(op.height + es)
           /\ op' = [op EXCEPT !.horizontal = Counted(@), !.y = f32(@ + es)]
    /\ UNCHANGED ret
    /\ GridQuiet

\* The second loop is left and `commands` returned.
Grid_return ==
    /\ op.pc = "horizontal"
    /\ ~(op.y < f32(op.height + effective_spacing(op.spacing, op.zoom)))
    /\ op' = [op EXCEPT !.pc = "done"]
    /\ ret' = Commands(op.vertical, op.horizontal)
    /\ GridQuiet

NextGrid ==
    \/ Grid_return_empty
    \/ Grid_enter
    \/ Grid_vertical_line
    \/ Grid_vertical_end
    \/ Grid_horizontal_line
    \/ Grid_return

\* A call that has begun goes on: the function runs on its own.
SpecGrid == InitGrid /\ [][NextGrid]_vars /\ WF_vars(NextGrid)

-----------------------------------------------------------------------------
(* C30 *)

\* What generate_grid_commands has returned keeps the bounds: nothing when
\* spacing * zoom < 4, and otherwise at most width / (spacing * zoom) + 2
\* vertical and height / (spacing * zoom) + 2 horizontal lines.
GridWithinBounds ==
    op.pc = "done" =>
        IF op.spacing * op.zoom < 4 THEN ret = Commands(0, 0)
        ELSE /\ (ret.vertical - 2) * (op.spacing * op.zoom) <= op.width
             /\ (ret.horizontal - 2) * (op.spacing * op.zoom) <= op.height

\* C30: generate_grid_commands terminates for every finite width, height,
\* zoom, pan and spacing; it returns the empty string whenever
\* spacing * zoom < 4, so for every zoom <= 0 with a positive spacing, and
\* otherwise emits at most width / (spacing * zoom) + 2 vertical lines and
\* height / (spacing * zoom) + 2 horizontal lines.
C30_GridTerminatesWithinBounds ==
    /\ <>(op.pc = "done")
    /\ [](GridWithinBounds)

====
